---- MODULE Spec2Model ----
(***************************************************************************)
(* Model of the sasuke authentication backend: the credential repository   *)
(* over the Mongo and the Postgres store clients, the user service         *)
(* (bcrypt hashing), the Login route, and the JWT issuer / verifier.       *)
(*                                                                         *)
(* Spec       the store, the repositories, the user service and Login,     *)
(*            with concurrent requests interleaved at their database call. *)
(* SpecToken  CreateToken / VerifyToken over a ticking wall clock.         *)
(* SpecClient the generic operations of the two store clients, applied to  *)
(*            any document.                                                *)
(* SpecRoutes the Signup, Login and Create routes, served concurrently.    *)
(* SpecApp    NewApp step by step, main's Run, the serving of the routes.  *)
(* SpecHttp   the Login and Signup handlers from the HTTP request on, with *)
(*            their counters, and EnsureIndices called again.              *)
(* SpecConn   the life of a store client: Connect, operations, Disconnect. *)
(***************************************************************************)
EXTENDS Integers, Sequences, FiniteSets, TLC

(***************************************************************************)
(* Bounds of the model.                                                    *)
(***************************************************************************)
MaxCalls == 2
MaxSkew == 2
MaxRequests == 2
MaxOps == 3

(***************************************************************************)
(* Inputs.                                                                 *)
(***************************************************************************)
Workers == {"w1", "w2"}
Backends == {"mongo", "postgres"}
Usernames == {"alice001", "bob00002"}
Salts == {"s1"}

\* A password is described by its first 72 bytes (pre) and its length in
\* bytes: two passwords are the same byte string iff both fields agree, and
\* a password of at most 72 bytes is determined by pre alone.
Passwords ==
    { [pre |-> "A", len |-> 10],
      [pre |-> "C", len |-> 12],
      [pre |-> "B", len |-> 72],
      [pre |-> "B", len |-> 73] }

\* the empty password
NoPassword == [pre |-> "", len |-> 0]

(***************************************************************************)
(* Error values.  An error is its dynamic type, its driver code and its    *)
(* message, the message kept as the sequence of segments that fmt.Errorf   *)
(* joins with ": ".                                                        *)
(***************************************************************************)
NilErr == [typ |-> "nil", code |-> "", msg |-> <<>>]

Errorf(msg) == [typ |-> "errorString", code |-> "", msg |-> msg]

\* fmt.Errorf("<prefix>: %w" or "%v", err): the text of err is appended, a
\* nil err prints as %!w(<nil>); the result is a plain error, whatever the
\* type of err was.
WrapErr(prefix, err) ==
    Errorf(<<prefix>> \o (IF err.typ = "nil" THEN <<"%!w(<nil>)">> ELSE err.msg))

\* strings.Contains(err.Error(), s), on message segments
ErrContains(err, s) == \E i \in 1..Len(err.msg) : err.msg[i] = s

\* errors of the drivers
PqError(code, text) == [typ |-> "pq.Error", code |-> code, msg |-> <<"pq", text>>]
MongoErrNoDocuments == Errorf(<<"mongo: no documents in result">>)
MongoWriteException == Errorf(<<"write exception", "E11000 duplicate key error">>)
DriverFailure == Errorf(<<"connection refused">>)

\* a repository that compares with the code of another constraint violation
Unique_ErrorCodeMut == "23503"
Unique_ErrorCode == "23505"
DuplicateKeyErrorCode == "E11000 duplicate key error"
UsersCollection == "users"

(***************************************************************************)
(* Documents: string-keyed maps.                                           *)
(***************************************************************************)
MongoIDFIELD == "_id"
PostgresIDFIELD == "id"

\* keys holding '$' or '.' (Mongo operator syntax), and keys holding one of
\* the characters of "();--" (SQL syntax)
MongoUnsafeKeys == {"$where", "profile.role"}
PostgresUnsafeKeys == {"name;--", "count(id)"}

\* whitelists of the configuration.  The field whitelist is any list of
\* strings: this one also names identity keys and keys with reserved
\* characters, which the sanitizers drop whatever the whitelist says.
ValidCollections == {"users"}
ValidFields == {"username", "password", "_id", "id", "profile.role", "count(id)"}

Restrict(doc, keys) == [k \in (DOMAIN doc) \cap keys |-> doc[k]]

\* the credential record as the generic document
UserToDoc(user) == [username |-> user.Username, password |-> user.HashedPassword]

\* the zero value of models.User (identities are numbers here, 0 the empty one)
ZeroUser == [ID |-> 0, Username |-> "", HashedPassword |-> <<>>]

\* a stored row decoded into models.User
DocToUser(row) ==
    [ID             |-> row.id,
     Username       |-> IF "username" \in DOMAIN row.doc THEN row.doc["username"] ELSE "",
     HashedPassword |-> IF "password" \in DOMAIN row.doc THEN row.doc["password"] ELSE <<>>]

\* (a sanitizer that trusts the whitelist alone)
MongoSanitizeDocumentMut(doc) == Restrict(doc, ValidFields)
MongoSanitizeDocument(doc) ==
    Restrict(doc, {k \in DOMAIN doc :
                      /\ k # MongoIDFIELD
                      /\ k \in ValidFields
                      /\ k \notin MongoUnsafeKeys})

PostgresSanitizeDocument(doc) ==
    Restrict(doc, {k \in DOMAIN doc :
                      /\ k # PostgresIDFIELD
                      /\ k \notin PostgresUnsafeKeys
                      /\ k \in ValidFields})


(***************************************************************************)
(* The database behind the drivers.  A stored row is an identity and the   *)
(* document the driver was handed.  The schema descriptor of EnsureIndices *)
(* asks for a uniqueness constraint on username.                           *)
(***************************************************************************)
\* a schema whose SQL lacks UNIQUE
SchemaUniqueMut(b) == b # "postgres"
\* whether the descriptor handed to EnsureSchema asks for uniqueness:
\* options.Index().SetUnique(true) on Mongo, UNIQUE in ensureSchemaSQL
SchemaUnique(b) == TRUE

\* the columns CREATE TABLE users of ensureSchemaSQL declares, and the
\* columns FindOne selects for a models.User: strings.ToLower of the names
\* of its fields (ID, Username, HashedPassword)
SchemaColumns == {"id", "username", "password"}
UserColumns == {"id", "username", "hashedpassword"}

Matches(doc, filter) ==
    \A k \in DOMAIN filter : k \in DOMAIN doc /\ doc[k] = filter[k]

\* a row whose username equals the one of doc (a document without a
\* username counts as one username, as a unique index counts null)
UsernameOf(doc) == IF "username" \in DOMAIN doc THEN doc["username"] ELSE "<null>"

UniqueViolation(b, st, doc) ==
    SchemaUnique(b) /\ \E r \in st : UsernameOf(r.doc) = UsernameOf(doc)

\* the first row matching the filter, in insertion order
FirstMatch(st, filter) ==
    LET ms == {r \in st : Matches(r.doc, filter)}
    IN  CHOOSE r \in ms : \A q \in ms : r.id <= q.id

\* (a descriptor that creates without "if not exists")
ExecuteSchemaMut(b, schemaState, st) ==
    IF schemaState = "ensured"
    THEN [err |-> IF b = "mongo" THEN Errorf(<<"(IndexOptionsConflict) index already exists">>)
                  ELSE PqError("42P07", "relation already exists"),
          schema |-> schemaState, store |-> st]
    ELSE [err |-> NilErr, schema |-> "ensured", store |-> st]
\* the database executing the schema descriptor of the repository of backend
\* b: the table is created if it does not exist, the unique index on
\* username is created if it does not exist (which fails over rows that
\* share a username); the rows stay
ExecuteSchema(b, schemaState, st) ==
    IF /\ schemaState # "ensured"
       /\ \E r1, r2 \in st : r1 # r2 /\ UsernameOf(r1.doc) = UsernameOf(r2.doc)
    THEN [err |-> IF b = "mongo" THEN MongoWriteException
                  ELSE PqError("23505", "could not create unique index"),
          schema |-> schemaState, store |-> st]
    ELSE [err |-> NilErr, schema |-> "ensured", store |-> st]

(***************************************************************************)
(* MongoDBClient.  fault is the driver's choice to fail (connection lost). *)
(***************************************************************************)
MongoInsertOne(st, nid, collectionName, document, fault) ==
    IF collectionName \notin ValidCollections
    THEN [store |-> st, id |-> 0, idType |-> "none", drv |-> "none",
          err |-> Errorf(<<"MongoDBClient: Invalid collection name", collectionName>>)]
    ELSE LET sanitizedDocument == MongoSanitizeDocument(document)
             prefix == <<"MongoDBClient: Failed to insert one into", collectionName>>
         IN  IF fault
             THEN [store |-> st, id |-> 0, idType |-> "none", drv |-> "failure",
                   err |-> Errorf(prefix \o DriverFailure.msg)]
             ELSE IF UniqueViolation("mongo", st, sanitizedDocument)
             THEN [store |-> st, id |-> 0, idType |-> "none", drv |-> "duplicate",
                   err |-> Errorf(prefix \o MongoWriteException.msg)]
             ELSE [store |-> st \cup {[id |-> nid, doc |-> sanitizedDocument]},
                   id |-> nid, idType |-> "ObjectID", drv |-> "inserted",
                   err |-> NilErr]

MongoFindOne(st, collectionName, filter, fault) ==
    IF collectionName \notin ValidCollections
    THEN [found |-> FALSE, user |-> ZeroUser, drv |-> "none",
          err |-> Errorf(<<"MongoDBClient: Invalid collection name", collectionName>>)]
    ELSE LET sanitizedFilter == MongoSanitizeDocument(filter)
         IN  IF fault
             THEN [found |-> FALSE, user |-> ZeroUser, drv |-> "failure",
                   err |-> Errorf(<<"MongoDBClient: Failed to find one in", collectionName,
                                    "with filter", UsernameOf(filter)>> \o DriverFailure.msg)]
             ELSE IF \A r \in st : ~Matches(r.doc, sanitizedFilter)
             THEN \* err == mongo.ErrNoDocuments: replaced by a new message
                  [found |-> FALSE, user |-> ZeroUser, drv |-> "nodoc",
                   err |-> Errorf(<<"MongoDBClient: No document found in", collectionName,
                                    "with filter", UsernameOf(filter)>>)]
             ELSE [found |-> TRUE, user |-> DocToUser(FirstMatch(st, sanitizedFilter)),
                   drv |-> "found", err |-> NilErr]

(***************************************************************************)
(* PostgresDatabaseClient.  idIsString is the driver's choice of the       *)
(* dynamic type of the scanned RETURNING id (string or []byte).            *)
(***************************************************************************)
PostgresInsertOne(st, nid, tableName, document, fault, idIsString) ==
    LET docMap == IF PostgresIDFIELD \in DOMAIN document
                  THEN document
                  ELSE [k \in (DOMAIN document) \cup {PostgresIDFIELD} |->
                          IF k = PostgresIDFIELD THEN nid ELSE document[k]]
        row == [id |-> docMap[PostgresIDFIELD],
                doc |-> Restrict(docMap, (DOMAIN docMap) \ {PostgresIDFIELD})]
    IN  IF fault
        THEN [store |-> st, id |-> 0, idType |-> "none", drv |-> "failure",
              err |-> DriverFailure]
        ELSE IF tableName # UsersCollection
        THEN [store |-> st, id |-> 0, idType |-> "none", drv |-> "failure",
              err |-> PqError("42P01", "relation does not exist")]
        ELSE IF UniqueViolation("postgres", st, row.doc)
        THEN [store |-> st, id |-> 0, idType |-> "none", drv |-> "duplicate",
              \* SQLSTATE unique_violation, as the server reports it
              err |-> PqError("23505", "duplicate key value violates unique constraint")]
        ELSE [store |-> st \cup {row}, id |-> row.id,
              idType |-> IF idIsString THEN "string" ELSE "bytes",
              drv |-> "inserted", err |-> NilErr]

PostgresFindOne(st, tableName, filter, fault) ==
    IF tableName \notin ValidCollections
    THEN [found |-> FALSE, user |-> ZeroUser, drv |-> "none",
          err |-> Errorf(<<"invalid table name", tableName>>)]
    ELSE LET sanitizedFilterMap == PostgresSanitizeDocument(filter)
         IN  IF DOMAIN sanitizedFilterMap = {}
             THEN [found |-> FALSE, user |-> ZeroUser, drv |-> "none",
                   err |-> Errorf(<<"PostgreSQL FindOne requires a non-empty filter">>)]
             ELSE IF fault
             THEN [found |-> FALSE, user |-> ZeroUser, drv |-> "failure",
                   err |-> DriverFailure]
             ELSE IF ~(UserColumns \subseteq SchemaColumns)
             THEN \* the SELECT names a column the table does not have
                  [found |-> FALSE, user |-> ZeroUser, drv |-> "nocolumn",
                   err |-> PqError("42703", "column does not exist")]
             ELSE IF \A r \in st : ~Matches(r.doc, sanitizedFilterMap)
             THEN \* err == sql.ErrNoRows: nil error, result left at its zero value
                  [found |-> FALSE, user |-> ZeroUser, drv |-> "nodoc", err |-> NilErr]
             ELSE [found |-> TRUE, user |-> DocToUser(FirstMatch(st, sanitizedFilterMap)),
                   drv |-> "found", err |-> NilErr]


(***************************************************************************)
(* The credential repositories.  A result of GetUserByUsername is the      *)
(* returned pointer (nil or not), the record it points to, and the error.  *)
(***************************************************************************)
MongoAddUser(st, nid, user, fault) ==
    LET r == MongoInsertOne(st, nid, UsersCollection, UserToDoc(user), fault)
    IN  IF r.err # NilErr
        THEN [store |-> r.store, id |-> 0, drv |-> r.drv,
              err |-> IF ErrContains(r.err, DuplicateKeyErrorCode)
                      THEN Errorf(<<"username already exists", user.Username>>)
                      ELSE WrapErr("failed to add user to MongoDB", r.err)]
        ELSE IF r.idType # "ObjectID"
        THEN [store |-> r.store, id |-> 0, drv |-> r.drv,
              err |-> Errorf(<<"failed to assert inserted ID to ObjectID">>)]
        ELSE [store |-> r.store, id |-> r.id, drv |-> r.drv, err |-> NilErr]

PostgresAddUser(st, nid, user, fault, idIsString) ==
    LET r == PostgresInsertOne(st, nid, UsersCollection, UserToDoc(user), fault, idIsString)
    IN  IF r.err # NilErr
        THEN [store |-> r.store, id |-> 0, drv |-> r.drv,
              err |-> IF r.err.typ = "pq.Error" /\ r.err.code = Unique_ErrorCode
                      THEN Errorf(<<"username already exists", user.Username>>)
                      ELSE WrapErr("failed to add user to PostgreSQL", r.err)]
        ELSE IF r.idType # "string"
        THEN [store |-> r.store, id |-> 0, drv |-> r.drv,
              err |-> Errorf(<<"failed to assert inserted ID to string (expected UUID)">>)]
        ELSE [store |-> r.store, id |-> r.id, drv |-> r.drv, err |-> NilErr]

AddUser(b, st, nid, user, fault, idIsString) ==
    IF b = "mongo" THEN MongoAddUser(st, nid, user, fault)
                   ELSE PostgresAddUser(st, nid, user, fault, idIsString)

MongoGetUserByUsername(st, username, fault) ==
    LET r == MongoFindOne(st, UsersCollection, [username |-> username], fault)
    IN  IF r.err # NilErr
        THEN IF r.err.msg = MongoErrNoDocuments.msg
             THEN [ptr |-> "nil", user |-> ZeroUser, drv |-> r.drv, err |-> NilErr]
             ELSE [ptr |-> "nil", user |-> ZeroUser, drv |-> r.drv,
                   err |-> WrapErr("failed to get user by username from MongoDB", r.err)]
        ELSE [ptr |-> "user", user |-> r.user, drv |-> r.drv, err |-> NilErr]

PostgresGetUserByUsername(st, username, fault) ==
    LET r == PostgresFindOne(st, UsersCollection, [username |-> username], fault)
    IN  IF r.err # NilErr
        THEN [ptr |-> "nil", user |-> ZeroUser, drv |-> r.drv,
              err |-> WrapErr("failed to get user by username from PostgreSQL", r.err)]
        ELSE [ptr |-> "user", user |-> r.user, drv |-> r.drv, err |-> NilErr]

GetUserByUsername(b, st, username, fault) ==
    IF b = "mongo" THEN MongoGetUserByUsername(st, username, fault)
                   ELSE PostgresGetUserByUsername(st, username, fault)

(***************************************************************************)
(* bcrypt, as the user service calls it.  The hash binds the salt and the  *)
(* first 72 bytes of the password, which are all the cipher reads.         *)
(***************************************************************************)
\* (a hash that is the password itself)
GenerateFromPasswordMut(password, salt) ==
    IF password.len > 72
    THEN [hash |-> <<>>, err |-> Errorf(<<"bcrypt: password length exceeds 72 bytes">>)]
    ELSE [hash |-> <<password.pre>>, err |-> NilErr]
GenerateFromPassword(password, salt) ==
    IF password.len > 72
    THEN [hash |-> <<>>, err |-> Errorf(<<"bcrypt: password length exceeds 72 bytes">>)]
    ELSE [hash |-> <<"$2a$10$", salt, password.pre>>, err |-> NilErr]

CompareHashAndPassword(hashedPassword, password) ==
    IF Len(hashedPassword) # 3
    THEN Errorf(<<"crypto/bcrypt: hashedSecret too short to be a bcrypted password">>)
    ELSE IF hashedPassword[3] = password.pre
    THEN NilErr
    ELSE Errorf(<<"crypto/bcrypt: hashedPassword is not the hash of the given password">>)

\* string(hashedPassword): the text of a hash
HashText(hashedPassword) ==
    IF Len(hashedPassword) = 3
    THEN hashedPassword[1] \o hashedPassword[2] \o hashedPassword[3]
    ELSE ""

(***************************************************************************)
(* UserService.                                                            *)
(***************************************************************************)
ErrFailedToHashPassword == "failed to hash password"
ErrFailedToRegisterUser == "failed to register user"
ErrRetrievingUser == "error retrieving user"
ErrUserNotFound == "user not found"
ErrInvalidPassword == "invalid password"

\* RegisterUser after a successful hash: AddUser and the translation of its error
RegisterUser(b, st, nid, username, hashedPassword, fault, idIsString) ==
    LET user == [ID |-> 0, Username |-> username, HashedPassword |-> hashedPassword]
        r == AddUser(b, st, nid, user, fault, idIsString)
    IN  IF r.err # NilErr
        THEN [store |-> r.store, id |-> 0, drv |-> r.drv, rerr |-> r.err,
              err |-> WrapErr(ErrFailedToRegisterUser, r.err)]
        ELSE [store |-> r.store, id |-> r.id, drv |-> r.drv, rerr |-> r.err,
              err |-> NilErr]

\* (a service that answers a wrong password with false and no error)
AuthenticateUserNilMut(b, st, username, password, fault) ==
    LET r == GetUserByUsername(b, st, username, fault)
        cmp == CompareHashAndPassword(r.user.HashedPassword, password)
    IN  IF r.err # NilErr
        THEN [ok |-> FALSE, err |-> WrapErr(ErrRetrievingUser, r.err), repo |-> r]
        ELSE IF r.ptr = "nil"
        THEN [ok |-> FALSE, err |-> WrapErr(ErrUserNotFound, r.err), repo |-> r]
        ELSE [ok |-> cmp = NilErr, err |-> NilErr, repo |-> r]
\* (a service whose invalid-password error quotes the stored hash)
AuthenticateUserMut(b, st, username, password, fault) ==
    LET r == GetUserByUsername(b, st, username, fault)
        cmp == CompareHashAndPassword(r.user.HashedPassword, password)
    IN  IF r.err # NilErr
        THEN [ok |-> FALSE, err |-> WrapErr(ErrRetrievingUser, r.err), repo |-> r]
        ELSE IF r.ptr = "nil"
        THEN [ok |-> FALSE, err |-> WrapErr(ErrUserNotFound, r.err), repo |-> r]
        ELSE IF cmp # NilErr
        THEN [ok |-> FALSE, repo |-> r,
              err |-> WrapErr(ErrInvalidPassword, Errorf(<<HashText(r.user.HashedPassword)>>))]
        ELSE [ok |-> TRUE, err |-> NilErr, repo |-> r]
AuthenticateUser(b, st, username, password, fault) ==
    LET r == GetUserByUsername(b, st, username, fault)
        cmp == CompareHashAndPassword(r.user.HashedPassword, password)
    IN  IF r.err # NilErr
        THEN [ok |-> FALSE, err |-> WrapErr(ErrRetrievingUser, r.err), repo |-> r]
        ELSE IF r.ptr = "nil"
        THEN [ok |-> FALSE, err |-> WrapErr(ErrUserNotFound, r.err), repo |-> r]
        ELSE IF cmp # NilErr
        THEN [ok |-> FALSE, err |-> WrapErr(ErrInvalidPassword, cmp), repo |-> r]
        ELSE [ok |-> TRUE, err |-> NilErr, repo |-> r]

(***************************************************************************)
(* The routes, from the decoded request on.  A response is the status, the *)
(* fields of the JSON body (error, message, user_id) and the session       *)
(* cookie ("" when none is set, else the username the token carries).      *)
(***************************************************************************)
NoResp == [status |-> 0, error |-> <<>>, message |-> "", cookie |-> "", userID |-> 0]

\* errorResponse: {"error": err.Error(), "message": message}
ErrorResponse(status, err, message) ==
    [status |-> status, error |-> err.msg, message |-> message, cookie |-> "",
     userID |-> 0]

\* validator.Struct on the request: min=8,max=64 on the password
ValidateStruct(password) == password.len >= 8 /\ password.len <= 64

\* (a handler that sets the cookie before it creates the token)
LoginResponseMut(username, auth, signFails) ==
    IF auth.err # NilErr \/ ~auth.ok
    THEN ErrorResponse(401, auth.err, "Invalid username or password")
    ELSE IF signFails
    THEN [ErrorResponse(500, Errorf(<<"ecdsa: signing failed">>),
                        "Failed to generate session token") EXCEPT !.cookie = username]
    ELSE [status |-> 200, error |-> <<>>, message |-> "Login successful",
          cookie |-> username, userID |-> 0]
\* Route.Login after AuthenticateUser returned auth: the 401 response, or
\* CreateToken and the 500 response or the cookie and the 200 response
LoginResponse(username, auth, signFails) ==
    IF auth.err # NilErr \/ ~auth.ok
    THEN ErrorResponse(401, auth.err, "Invalid username or password")
    ELSE IF signFails
    THEN ErrorResponse(500, Errorf(<<"ecdsa: signing failed">>), "Failed to generate session token")
    ELSE [status |-> 200, error |-> <<>>, message |-> "Login successful",
          cookie |-> username, userID |-> 0]

\* Route.Signup after RegisterUser returned (userID, err)
SignupResponse(userID, err) ==
    IF err # NilErr
    THEN ErrorResponse(409, err, "Failed to register user")
    ELSE [status |-> 201, error |-> <<>>, message |-> "User created successfully with ID",
          cookie |-> "", userID |-> userID]

\* Route.Create
CreateResponse ==
    ErrorResponse(501, Errorf(<<"create route not implemented">>),
                  "Create route has not been implemented yet")


\* the requests a client can send: the method, the Content-Type header and
\* the body, which json.Decode refuses or decodes into a username and a
\* password (empty when the field is missing)
Requests ==
    {r \in [method : {"POST", "GET"}, ctype : {"application/json", "text/plain"},
            decodable : BOOLEAN, user : Usernames \cup {"", "bob"},
            pw : Passwords \cup {NoPassword}] :
        /\ ~r.decodable => r.user = "" /\ r.pw = NoPassword
        /\ r.decodable => r.user \in Usernames \/ r.pw.len = 10
        /\ (r.decodable /\ (r.method # "POST" \/ r.ctype # "application/json")) =>
               r.user = "alice001" /\ r.pw.len = 10}

\* (a handler that looks at the Content-Type before the method)
RequestChecksMut(route, req) ==
    IF req.ctype # "application/json"
    THEN ErrorResponse(400, Errorf(<<"invalid content-type", req.ctype>>),
                       "Content-Type must be application/json")
    ELSE IF req.method # "POST"
    THEN ErrorResponse(405, Errorf(<<"method not allowed", req.method>>), "Method not allowed")
    ELSE IF ~req.decodable
    THEN ErrorResponse(400, Errorf(<<"unexpected EOF">>), "Invalid request body")
    ELSE IF ~(Len(req.user) >= 8 /\ Len(req.user) <= 64 /\ ValidateStruct(req.pw))
    THEN ErrorResponse(400, Errorf(<<"invalid data">>), "data validation failed")
    ELSE NoResp
\* the checks of Route.Login and Route.Signup before the user service, in
\* their order: the response of the first that fails, NoResp when all pass
RequestChecks(route, req) ==
    IF req.method # "POST"
    THEN ErrorResponse(405, Errorf(<<"method not allowed", req.method>>), "Method not allowed")
    ELSE IF req.ctype # "application/json"
    THEN ErrorResponse(400, Errorf(<<"invalid content-type", req.ctype>>),
                       IF route = "Login" THEN "Content-Type must be application/json"
                       ELSE "Request Content-Type must be application/json")
    ELSE IF ~req.decodable
    THEN ErrorResponse(400, Errorf(<<"unexpected EOF">>), "Invalid request body")
    ELSE IF ~(Len(req.user) >= 8 /\ Len(req.user) <= 64 /\ ValidateStruct(req.pw))
    THEN IF route = "Login"
         THEN ErrorResponse(400, Errorf(<<"invalid login data">>), "Login data validation failed")
         ELSE ErrorResponse(400, Errorf(<<"invalid signup data">>), "Signup data validation failed")
    ELSE NoResp

\* the counters App.initializeMetrics registers
Counters ==
    {"signup_requests_total", "signup_success_total", "signup_errors_total",
     "login_requests_total", "login_success_total", "login_failed_total"}

\* Metrics.IncCounter, when inc holds
IncCounter(metrics, name, inc) ==
    IF inc THEN [metrics EXCEPT ![name] = @ + 1] ELSE metrics

\* the handlers before the first request
IdleRq ==
    [n          |-> 0,                        \* requests served so far
     metrics    |-> [c \in Counters |-> 0],
     route      |-> "",                       \* the last request: Login or Signup
     req        |-> [method |-> "", ctype |-> "", decodable |-> FALSE, user |-> "",
                     pw |-> NoPassword],
     service    |-> FALSE,                    \* the user service was called
     ok         |-> FALSE,                    \* AuthenticateUser: the boolean
     err        |-> NilErr,                   \* the error of the user service
     signFails  |-> FALSE,                    \* CreateToken returned an error
     writeFails |-> FALSE,                    \* the encoding of the response body failed
     changed    |-> FALSE,                    \* the request changed the stored rows
     ensures    |-> 0,                        \* repeated EnsureIndices calls that succeeded
     before     |-> [c \in Counters |-> 0],   \* the counters before the request
     resp       |-> NoResp]

(***************************************************************************)
(* auth: tokens.  A token string is its form, the alg of its header, its   *)
(* claims, and its signature: the key that made it, the method that made   *)
(* it and the signing input (header and claims) it was made over.  The     *)
(* wall clock counts whole seconds, the precision of jwt.NumericDate.      *)
(***************************************************************************)
ISSUER == "github.com/haguru/sasuke.com"
SUBJECT == "AUTHENTICATION"

\* 15 * time.Minute, in seconds
Lifetime == 900

\* key pairs: the private and the public key of a pair carry one name
Keys == {"K1", "K2"}

\* jwt.SigningMethodECDSA has three instances; HS256 and none are other types
EcdsaMethods == {"ES256", "ES384", "ES512"}
HeaderAlgs == {"ES256", "ES384", "HS256", "none"}

NoClaims == [UserID |-> "", Issuer |-> "", Subject |-> "", exp |-> 0, iat |-> 0, nbf |-> 0]
NoSig == [key |-> "", alg |-> "", input |-> <<"", NoClaims>>]
NoToken == [form |-> "none", alg |-> "", claims |-> NoClaims, sig |-> NoSig]
Malformed == [NoToken EXCEPT !.form = "malformed"]

\* token.SignedString: the signature made with a private key by a method
\* over header and claims
SignedString(alg, claims, privateKey) ==
    [form |-> "jws", alg |-> alg, claims |-> claims,
     sig |-> [key |-> privateKey, alg |-> alg, input |-> <<alg, claims>>]]

\* CreateToken from its three readings of time.Now() on
CreateToken(userName, privateKey, expNow, iatNow, nbfNow) ==
    SignedString("ES256",
                 [UserID |-> userName, Issuer |-> ISSUER, Subject |-> SUBJECT,
                  exp |-> expNow + Lifetime, iat |-> iatNow, nbf |-> nbfNow],
                 privateKey)

\* SigningMethodECDSA.Verify: the signature was made by the private key of
\* publicKey, by the method of the header, over this header and these claims
\* (a verification that does not bind the signature to the key)
EcdsaVerifyMut(tok, publicKey) ==
    /\ tok.sig.alg = tok.alg
    /\ tok.sig.input = <<tok.alg, tok.claims>>
EcdsaVerify(tok, publicKey) ==
    /\ tok.sig.key = publicKey
    /\ tok.sig.alg = tok.alg
    /\ tok.sig.input = <<tok.alg, tok.claims>>

\* the keyfunc of VerifyToken: token.Method.(*jwt.SigningMethodECDSA)
KeyfuncAccepts(alg) == alg \in EcdsaMethods

\* (a validator that ends the lifetime one second early)
NotExpiredMut(now, exp) == now < exp - 1
\* jwt.Validator: expires-at and not-before against the current time
NotExpired(now, exp) == now < exp
NotBeforeOk(now, nbf) == now >= nbf

\* (a wrapper that drops the cause)
ParseErrorMut(err) == Errorf(<<"token parsing error">>)
\* fmt.Errorf("token parsing error: %v", err)
ParseError(err) == WrapErr("token parsing error", err)

\* VerifyToken at wall-clock time now.  stage is where the parser stopped.
VerifyToken(tok, publicKey, now) ==
    IF tok.form # "jws"
    THEN [ptr |-> "nil", claims |-> NoClaims, stage |-> "parse",
          err |-> ParseError(Errorf(<<"token is malformed",
                                      "token contains an invalid number of segments">>))]
    ELSE IF ~KeyfuncAccepts(tok.alg)
    THEN [ptr |-> "nil", claims |-> NoClaims, stage |-> "keyfunc",
          err |-> ParseError(Errorf(<<"token is unverifiable",
                                      "error while executing keyfunc",
                                      "unexpected signing method", tok.alg>>))]
    ELSE IF ~EcdsaVerify(tok, publicKey)
    THEN [ptr |-> "nil", claims |-> NoClaims, stage |-> "signature",
          err |-> ParseError(Errorf(<<"token signature is invalid",
                                      "crypto/ecdsa: verification error">>))]
    ELSE IF ~NotExpired(now, tok.claims.exp)
    THEN [ptr |-> "nil", claims |-> NoClaims, stage |-> "claims",
          err |-> ParseError(Errorf(<<"token has invalid claims", "token is expired">>))]
    ELSE IF ~NotBeforeOk(now, tok.claims.nbf)
    THEN [ptr |-> "nil", claims |-> NoClaims, stage |-> "claims",
          err |-> ParseError(Errorf(<<"token has invalid claims", "token is not valid yet">>))]
    ELSE [ptr |-> "claims", claims |-> tok.claims, stage |-> "valid", err |-> NilErr]

\* what can be presented to VerifyToken once tok was issued: tok, tok with
\* its claims altered, tok with another alg in its header (signature kept,
\* or made anew by a holder of a private key), and a string that is no JWS
Presented(tok) ==
    {Malformed} \cup
    (IF tok = NoToken THEN {} ELSE
        {tok}
        \cup {[tok EXCEPT !.claims.UserID = u] : u \in Usernames}
        \cup {[tok EXCEPT !.alg = a] : a \in HeaderAlgs}
        \cup {SignedString(a, tok.claims, k) : a \in HeaderAlgs \ {"HS256", "none"}, k \in Keys})

(***************************************************************************)
(* The generic operations of the two store clients, up to the call of the  *)
(* driver.  A document argument is nil or a string-keyed map; a value is a *)
(* scalar or a map, of which only the keys matter (sub).  What an          *)
(* operation hands to the driver is recorded as: the driver method, the    *)
(* collection or table name, the filter and the document.  For Postgres    *)
(* name and the keys of filter and document, and cols, are the parts of    *)
(* the SQL text that were interpolated, the values of filter and document  *)
(* are the bound parameters.                                               *)
(***************************************************************************)
MaxKeys == 2

ClientKeys ==
    {"_id", "id", "username", "password", "role",
     "$where", "profile.role", "name;--", "count(id)"}

\* keys that begin with '$': query operators of the document database
DollarKeys == {"$where", "$ne"}

Scalar(v) == [val |-> v, sub |-> {}]
OperatorMap == [val |-> "", sub |-> {"$ne"}]
Values == {Scalar("x"), OperatorMap}

EmptyMap == [k \in {} |-> Scalar("")]
NilDocument == [nil |-> TRUE, m |-> EmptyMap]
MapDocument(m) == [nil |-> FALSE, m |-> m]

\* the documents of at most n keys, and nil
Documents(n) ==
    {NilDocument} \cup
    {MapDocument(m) : m \in UNION {[ks -> Values] :
                                     ks \in {s \in SUBSET ClientKeys : Cardinality(s) <= n}}}

ClientNames == {"users", "orders", ""}
FilterOps == {"FindOne", "FindMany", "UpdateOne", "DeleteOne", "DeleteMany"}
DocumentOps == {"InsertOne", "UpdateOne"}
ClientOps == FilterOps \cup DocumentOps
SchemaKinds == {"IndexModel", "CREATE TABLE", "nil"}

\* an operation that returned before it called the driver
NotCalled(stage, err) ==
    [called |-> FALSE, method |-> "", name |-> "", filter |-> NilDocument,
     document |-> NilDocument, cols |-> {}, stage |-> stage, err |-> err]

\* an operation that called the driver
Handed(method, name, filter, document, cols) ==
    [called |-> TRUE, method |-> method, name |-> name, filter |-> filter,
     document |-> document, cols |-> cols, stage |-> "driver", err |-> NilErr]

\* MongoDBClient.sanitizeDocument on a document argument: nil stays nil
MongoSanitized(document) ==
    IF document.nil THEN NilDocument
    ELSE MapDocument(MongoSanitizeDocument(document.m))

\* the six operations of MongoDBClient that take a filter or a document
MongoDriverCall(op, collectionName, filter, document) ==
    IF collectionName \notin ValidCollections
    THEN NotCalled("name", Errorf(<<"MongoDBClient: Invalid collection name", collectionName>>))
    ELSE IF collectionName = ""
    THEN NotCalled("name", Errorf(<<"MongoDBClient: Collection name cannot be empty">>))
    ELSE Handed(op, collectionName,
                IF op \in FilterOps THEN MongoSanitized(filter) ELSE NilDocument,
                IF op \in DocumentOps THEN MongoSanitized(document) ELSE NilDocument,
                {})

MongoEnsureSchema(connected, collectionName, schemaDoc) ==
    IF ~connected
    THEN NotCalled("connect", Errorf(<<"MongoDBClient is not connected to a database">>))
    ELSE IF schemaDoc = "nil"
    THEN NotCalled("schema", Errorf(<<"EnsureSchema expects schema to be a mongo.IndexModel">>))
    ELSE IF schemaDoc # "IndexModel"
    THEN NotCalled("schema", Errorf(<<"EnsureSchema: expected mongo.IndexModel for MongoDB">>))
    ELSE Handed("Indexes.CreateOne", collectionName, NilDocument, NilDocument, {})

\* the answer of the Mongo driver to a call: it refuses a nil document and
\* an update document without an update operator before it asks the server
MongoDriver(out, fault) ==
    IF fault THEN DriverFailure
    ELSE IF out.name = ""
    THEN Errorf(<<"(InvalidNamespace) Invalid namespace specified">>)
    ELSE IF \/ out.method \in FilterOps /\ out.filter.nil
            \/ out.method \in DocumentOps /\ out.document.nil
    THEN Errorf(<<"document is nil">>)
    ELSE IF out.method = "UpdateOne" /\ DOMAIN out.document.m = {}
    THEN Errorf(<<"update document must have at least one element">>)
    ELSE IF out.method = "UpdateOne" /\ (DOMAIN out.document.m) \cap DollarKeys = {}
    THEN Errorf(<<"update document must contain key beginning with '$'">>)
    ELSE NilErr

\* what a MongoDBClient operation returns for the driver's answer err
MongoReturned(op, collectionName, err) ==
    IF err = NilErr THEN NilErr
    ELSE WrapErr(CASE op = "InsertOne"    -> "MongoDBClient: Failed to insert one into"
                   [] op = "FindOne"      -> "MongoDBClient: Failed to find one in"
                   [] op = "FindMany"     -> "MongoDBClient: Finding many failed"
                   [] op = "UpdateOne"    -> "MongoDBClient: Failed updating one in"
                   [] op = "DeleteOne"    -> "MongoDBClient: Failed deleting one from"
                   [] op = "DeleteMany"   -> "MongoDBClient: Failed Deleting many from"
                   [] OTHER               -> "failed to create index",
                 err)

\* (a sanitizer that rejects a document holding a key it would drop)
PostgresSanitizedMut(document) ==
    IF document.nil
    THEN [err |-> Errorf(<<"PostgreSQL SanitizeDocument: Document is nil">>),
          doc |-> NilDocument]
    ELSE IF PostgresSanitizeDocument(document.m) # document.m
    THEN [err |-> Errorf(<<"PostgreSQL SanitizeDocument: invalid key">>),
          doc |-> NilDocument]
    ELSE [err |-> NilErr, doc |-> document]
\* PostgresDatabaseClient.sanitizeDocument on a document argument
PostgresSanitized(document) ==
    IF document.nil
    THEN [err |-> Errorf(<<"PostgreSQL SanitizeDocument: Document is nil">>),
          doc |-> NilDocument]
    ELSE [err |-> NilErr, doc |-> MapDocument(PostgresSanitizeDocument(document.m))]

\* PostgresDatabaseClient.InsertOne: the statement it builds
PostgresInsertStatement(tableName, document) ==
    IF document.nil
    THEN NotCalled("type", Errorf(<<"PostgreSQL InsertOne expects document to be map[string]interface{}">>))
    ELSE LET docMap == IF PostgresIDFIELD \in DOMAIN document.m
                       THEN document.m
                       ELSE [k \in (DOMAIN document.m) \cup {PostgresIDFIELD} |->
                               IF k = PostgresIDFIELD THEN Scalar("uuid") ELSE document.m[k]]
         IN  Handed("InsertOne", tableName, NilDocument, MapDocument(docMap), {})

\* the five operations of PostgresDatabaseClient that take a filter: the
\* statement they build
PostgresFilterStatement(op, tableName, filter, update) ==
    LET f == PostgresSanitized(filter)
        u == PostgresSanitized(update)
    IN  IF tableName \notin ValidCollections
        THEN NotCalled("name", Errorf(<<"invalid table name", tableName>>))
        ELSE IF f.err # NilErr
        THEN NotCalled("sanitize",
                     WrapErr(IF op = "FindOne"
                             THEN "PostgreSQL FindOne failed to sanitize filter"
                             ELSE "PostgreSQL FindMany failed to sanitize filter", f.err))
        ELSE IF op = "UpdateOne" /\ u.err # NilErr
        THEN NotCalled("sanitize", WrapErr("PostgreSQL UpdateOne failed to sanitize update", u.err))
        ELSE IF op = "FindOne" /\ DOMAIN f.doc.m = {}
        THEN NotCalled("filter", Errorf(<<"PostgreSQL FindOne requires a non-empty filter">>))
        ELSE Handed(op, tableName, f.doc,
                    IF op = "UpdateOne" THEN u.doc ELSE NilDocument,
                    IF op = "FindOne" THEN UserColumns ELSE {})

PostgresStatement(op, tableName, filter, document) ==
    IF op = "InsertOne" THEN PostgresInsertStatement(tableName, document)
    ELSE PostgresFilterStatement(op, tableName, filter, document)

PostgresEnsureSchema(connected, tableName, schemaDoc) ==
    IF ~connected
    THEN NotCalled("connect", Errorf(<<"PostgresDatabaseClient is not connected to a database">>))
    ELSE IF schemaDoc # "CREATE TABLE"
    THEN NotCalled("schema", Errorf(<<"EnsureSchema expects schema to be a CREATE TABLE statement string">>))
    ELSE Handed("EnsureSchema", "", NilDocument, NilDocument, {})

\* the column names a statement interpolates, and the values it binds
Interpolated(out) ==
    (IF out.filter.nil THEN {} ELSE DOMAIN out.filter.m)
    \cup (IF out.document.nil THEN {} ELSE DOMAIN out.document.m)
    \cup out.cols

Bound(out) ==
    (IF out.filter.nil THEN {} ELSE {out.filter.m[k] : k \in DOMAIN out.filter.m})
    \cup (IF out.document.nil THEN {} ELSE {out.document.m[k] : k \in DOMAIN out.document.m})

\* the answer of database/sql, lib/pq and the server to a statement: the
\* driver cannot bind a map, the server parses the text and resolves the
\* table and the columns
PostgresServer(out, fault) ==
    IF fault THEN DriverFailure
    ELSE IF out.method = "EnsureSchema" THEN NilErr
    ELSE IF \E v \in Bound(out) : v.sub # {}
    THEN Errorf(<<"sql: converting argument type", "unsupported type map[string]interface {}">>)
    ELSE IF \/ Interpolated(out) \cap PostgresUnsafeKeys # {}
            \/ Interpolated(out) \cap MongoUnsafeKeys # {}
            \/ out.method \in {"UpdateOne", "DeleteOne"} /\ DOMAIN out.filter.m = {}
            \/ out.method = "UpdateOne" /\ DOMAIN out.document.m = {}
    THEN PqError("42601", "syntax error")
    ELSE IF out.name # UsersCollection
    THEN PqError("42P01", "relation does not exist")
    ELSE IF ~(Interpolated(out) \subseteq SchemaColumns)
    THEN PqError("42703", "column does not exist")
    ELSE NilErr

\* UserRepository.EnsureIndices: EnsureSchema of the client with the schema
\* of the backend
RepoEnsureIndices(b, client, fault) ==
    LET out == IF b = "mongo"
               THEN MongoEnsureSchema(client.connected, UsersCollection, "IndexModel")
               ELSE PostgresEnsureSchema(client.connected, UsersCollection, "CREATE TABLE")
    IN  IF ~out.called THEN out.err
        ELSE IF b = "mongo" THEN MongoReturned("EnsureSchema", UsersCollection,
                                               MongoDriver(out, fault))
        ELSE PostgresServer(out, fault)

\* keys a sanitizer lets through
MongoAcceptable(k) == k # MongoIDFIELD /\ k \in ValidFields /\ k \notin MongoUnsafeKeys
PostgresAcceptable(k) == k # PostgresIDFIELD /\ k \in ValidFields /\ k \notin PostgresUnsafeKeys

(***************************************************************************)
(* State.                                                                  *)
(***************************************************************************)
VARIABLES
    backend,     \* Config.Database.Type
    schema,      \* "none", "ensured" (EnsureIndices succeeded), "failed"
    store,       \* the rows of the users collection / table
    nextId,      \* the next identity the backend generates
    call,        \* per worker: the request it is serving
    ncalls,      \* requests started so far
    registered,  \* history: username, password and returned ID of every RegisterUser
                 \* (hence AddUser) that returned an ID without error
    clock,       \* the wall clock, in seconds
    ct,          \* the CreateToken call in progress
    token,       \* the token CreateToken returned last
    verified,    \* the last VerifyToken call: its arguments, its time, its result
    cc,          \* the call of a store client: its arguments, what it handed to
                 \* the driver, its error
    app,         \* the process: its configuration, how far NewApp and main got,
                 \* the routes registered and served
    rq,          \* the HTTP handlers: the counters, and the last request served
    conn         \* a store client and its database: the handles, the last call

storeVars == <<backend, schema, store, nextId, call, ncalls, registered>>
tokenVars == <<clock, ct, token, verified>>
clientVars == <<cc>>
appVars == <<app>>
httpVars == <<rq>>
connVars == <<conn>>

IdleCall ==
    [op      |-> "none",      \* RegisterUser, AuthenticateUser, Login, Signup, Create
     pc      |-> "idle",      \* idle, db (about to call the store), done
     user    |-> "",
     pw      |-> NoPassword,
     hash    |-> <<>>,        \* RegisterUser: the bcrypt hash
     known   |-> {},          \* history: passwords registered for user when the call began
     present |-> FALSE,       \* history: a row of user was stored when the store was called
     changed |-> FALSE,       \* history: the call of the store changed the stored rows
     drv     |-> "none",      \* what the driver did: inserted, duplicate, found, nodoc, failure
     id      |-> 0,           \* AddUser: the returned ID
     ptr     |-> "nil",       \* GetUserByUsername: nil or a pointer to a record
     found   |-> ZeroUser,    \* GetUserByUsername: the record pointed to
     rerr    |-> NilErr,      \* the repository's error
     ok      |-> FALSE,       \* AuthenticateUser: the boolean
     err     |-> NilErr,      \* the service's error
     resp    |-> NoResp]      \* Login, Signup, Create: the HTTP response

\* The database outlives the process: at start it is empty or holds a user
\* registered by an earlier run.
EarlierUser == "alice001"
EarlierPassword == [pre |-> "A", len |-> 10]
EarlierRow ==
    [id |-> 1,
     doc |-> [username |-> EarlierUser,
              password |-> GenerateFromPassword(EarlierPassword, "s0").hash]]

StoreInit ==
    /\ backend \in Backends
    /\ schema = "none"
    /\ \/ store = {} /\ nextId = 1 /\ registered = {}
       \/ /\ store = {EarlierRow}
          /\ nextId = 2
          /\ registered = {[user |-> EarlierUser, pw |-> EarlierPassword, id |-> 1]}
    /\ call = [w \in Workers |-> IdleCall]
    /\ ncalls = 0

\* App.initializeUserRepo: EnsureIndices before any route is served.  A worker
\* that has answered a request (done) is free for the next one.
EnsureIndices ==
    /\ schema = "none"
    /\ \E fault \in BOOLEAN : schema' = IF fault THEN "failed" ELSE "ensured"
    /\ UNCHANGED <<backend, store, nextId, call, ncalls, registered>>
    /\ UNCHANGED <<tokenVars, clientVars, appVars, httpVars, connVars>>

CanStart(w) ==
    /\ schema = "ensured"
    /\ call[w].pc \in {"idle", "done"}
    /\ ncalls < MaxCalls

KnownPasswords(u) == {a.pw : a \in {x \in registered : x.user = u}}

\* UserService.RegisterUser up to the call of AddUser
StartRegisterUser(w) ==
    /\ CanStart(w)
    /\ \E u \in Usernames, p \in Passwords, salt \in Salts :
         LET h == GenerateFromPassword(p, salt)
             c == [IdleCall EXCEPT !.op = "RegisterUser", !.user = u, !.pw = p,
                                   !.known = KnownPasswords(u)]
         IN  call' = [call EXCEPT ![w] =
                 IF h.err # NilErr
                 THEN [c EXCEPT !.pc = "done",
                                !.err = WrapErr(ErrFailedToHashPassword, h.err)]
                 ELSE [c EXCEPT !.pc = "db", !.hash = h.hash]]
    /\ ncalls' = ncalls + 1
    /\ UNCHANGED <<backend, schema, store, nextId, registered>>
    /\ UNCHANGED <<tokenVars, clientVars, appVars, httpVars, connVars>>

\* UserService.RegisterUser from AddUser on: the insert is one step of the database
FinishRegisterUser(w) ==
    /\ call[w].pc = "db"
    /\ call[w].op = "RegisterUser"
    /\ \E fault \in BOOLEAN, idIsString \in BOOLEAN :
         LET c == call[w]
             r == RegisterUser(backend, store, nextId, c.user, c.hash, fault, idIsString)
         IN  /\ store' = r.store
             /\ nextId' = IF r.store # store THEN nextId + 1 ELSE nextId
             /\ registered' = IF r.err = NilErr THEN registered \cup {[user |-> c.user, pw |-> c.pw, id |-> r.id]}
                                                ELSE registered
             /\ call' = [call EXCEPT ![w] =
                            [c EXCEPT !.pc = "done", !.drv = r.drv, !.id = r.id,
                                      !.present = \E row \in store : UsernameOf(row.doc) = c.user,
                                      !.changed = (r.store # store),
                                      !.rerr = r.rerr, !.err = r.err]]
    /\ UNCHANGED <<backend, schema, ncalls>>
    /\ UNCHANGED <<tokenVars, clientVars, appVars, httpVars, connVars>>

\* what a lookup leaves in the call record
Looked(c, a) ==
    [c EXCEPT !.pc = "done", !.drv = a.repo.drv,
              !.present = \E row \in store : UsernameOf(row.doc) = c.user,
              !.ptr = a.repo.ptr, !.found = a.repo.user,
              !.rerr = a.repo.err, !.ok = a.ok, !.err = a.err]

\* UserService.AuthenticateUser, called directly: its one access to the
\* store is the lookup, so the call is one step
CallAuthenticateUser(w) ==
    /\ CanStart(w)
    /\ \E u \in Usernames, p \in Passwords, fault \in BOOLEAN :
         LET c == [IdleCall EXCEPT !.op = "AuthenticateUser", !.user = u, !.pw = p,
                                   !.known = KnownPasswords(u)]
         IN  call' = [call EXCEPT ![w] =
                         Looked(c, AuthenticateUser(backend, store, u, p, fault))]
    /\ ncalls' = ncalls + 1
    /\ UNCHANGED <<backend, schema, store, nextId, registered>>
    /\ UNCHANGED <<tokenVars, clientVars, appVars, httpVars, connVars>>

\* Route.Login on a POST request with a JSON body
Login(w) ==
    /\ CanStart(w)
    /\ \E u \in Usernames, p \in Passwords, fault \in BOOLEAN, signFails \in BOOLEAN :
         LET c == [IdleCall EXCEPT !.op = "Login", !.user = u, !.pw = p,
                                   !.known = KnownPasswords(u)]
             a == AuthenticateUser(backend, store, u, p, fault)
         IN  call' = [call EXCEPT ![w] =
                 IF ~ValidateStruct(p)
                 THEN [c EXCEPT !.pc = "done",
                                !.resp = ErrorResponse(400, Errorf(<<"invalid login data">>),
                                                       "Login data validation failed")]
                 ELSE [Looked(c, a) EXCEPT !.resp = LoginResponse(u, a, signFails)]]
    /\ ncalls' = ncalls + 1
    /\ UNCHANGED <<backend, schema, store, nextId, registered>>
    /\ UNCHANGED <<tokenVars, clientVars, appVars, httpVars, connVars>>

\* Route.Signup on a POST request with a JSON body: validation, the hash,
\* RegisterUser (its insert is its one access to the store) and the response
Signup(w) ==
    /\ CanStart(w)
    /\ \E u \in Usernames, p \in Passwords, salt \in Salts,
          fault \in BOOLEAN, idIsString \in BOOLEAN :
         LET c == [IdleCall EXCEPT !.op = "Signup", !.pc = "done", !.user = u, !.pw = p,
                                   !.known = KnownPasswords(u)]
             h == GenerateFromPassword(p, salt)
             r == RegisterUser(backend, store, nextId, u, h.hash, fault, idIsString)
             herr == WrapErr(ErrFailedToHashPassword, h.err)
         IN  IF ~ValidateStruct(p)
             THEN /\ call' = [call EXCEPT ![w] =
                        [c EXCEPT !.resp = ErrorResponse(400, Errorf(<<"invalid signup data">>),
                                                         "Signup data validation failed")]]
                  /\ UNCHANGED <<store, nextId, registered>>
             ELSE IF h.err # NilErr
             THEN /\ call' = [call EXCEPT ![w] =
                        [c EXCEPT !.err = herr, !.resp = SignupResponse(0, herr)]]
                  /\ UNCHANGED <<store, nextId, registered>>
             ELSE /\ store' = r.store
                  /\ nextId' = IF r.store # store THEN nextId + 1 ELSE nextId
                  /\ registered' =
                        IF r.err = NilErr
                        THEN registered \cup {[user |-> u, pw |-> p, id |-> r.id]}
                        ELSE registered
                  /\ call' = [call EXCEPT ![w] =
                        [c EXCEPT !.hash = h.hash, !.drv = r.drv, !.id = r.id,
                                  !.present = \E row \in store : UsernameOf(row.doc) = u,
                                  !.changed = (r.store # store),
                                  !.rerr = r.rerr, !.err = r.err,
                                  !.resp = SignupResponse(r.id, r.err)]]
    /\ ncalls' = ncalls + 1
    /\ UNCHANGED <<backend, schema>>
    /\ UNCHANGED <<tokenVars, clientVars, appVars, httpVars, connVars>>

\* Route.Create
Create(w) ==
    /\ CanStart(w)
    /\ call' = [call EXCEPT ![w] =
                   [IdleCall EXCEPT !.op = "Create", !.pc = "done", !.resp = CreateResponse]]
    /\ ncalls' = ncalls + 1
    /\ UNCHANGED <<backend, schema, store, nextId, registered>>
    /\ UNCHANGED <<tokenVars, clientVars, appVars, httpVars, connVars>>

StoreNext ==
    \/ EnsureIndices
    \/ \E w \in Workers : StartRegisterUser(w)
    \/ \E w \in Workers : FinishRegisterUser(w)
    \/ \E w \in Workers : CallAuthenticateUser(w)
    \/ \E w \in Workers : Login(w)

\* the routes App registers, served concurrently
RoutesNext ==
    \/ EnsureIndices
    \/ \E w \in Workers : Signup(w)
    \/ \E w \in Workers : Login(w)
    \/ \E w \in Workers : Create(w)

\* what a handler leaves in rq for the request it served
Served(route, req, resp, metrics, called, ok, err, signFails, writeFails, changed) ==
    [n |-> rq.n + 1, metrics |-> metrics, route |-> route, req |-> req,
     service |-> called, ok |-> ok, err |-> err, signFails |-> signFails,
     writeFails |-> writeFails, changed |-> changed, ensures |-> rq.ensures,
     before |-> rq.metrics, resp |-> resp]

\* Route.Login, from the method check to the encoding of the response
HandleLogin ==
    /\ schema = "ensured"
    /\ rq.n < MaxRequests
    /\ \E req \in Requests, fault \in BOOLEAN, signs \in BOOLEAN, writes \in BOOLEAN :
         \* what is not reached is not chosen
         /\ RequestChecks("Login", req) # NoResp => ~fault /\ signs /\ writes
         /\ LET pre == RequestChecks("Login", req)
                called == pre = NoResp
                a == AuthenticateUser(backend, store, req.user, req.pw, fault)
                authenticated == called /\ a.err = NilErr /\ a.ok
                resp == IF called THEN LoginResponse(req.user, a, ~signs) ELSE pre
                signFails == authenticated /\ ~signs
                writeFails == resp.status = 200 /\ ~writes
                m1 == IncCounter(rq.metrics, "login_requests_total", req.method = "POST")
                m2 == IncCounter(m1, "login_success_total", authenticated)
                m3 == IncCounter(m2, "login_failed_total", resp.status # 200 \/ writeFails)
            IN  rq' = Served("Login", req, resp, m3, called,
                             called /\ a.ok, IF called THEN a.err ELSE NilErr,
                             signFails, writeFails, FALSE)
    /\ UNCHANGED <<storeVars, tokenVars, clientVars, appVars, connVars>>

\* Route.Signup, from the method check to the encoding of the response
HandleSignup ==
    /\ schema = "ensured"
    /\ rq.n < MaxRequests
    /\ \E req \in Requests, salt \in Salts, fault \in BOOLEAN, idIsString \in BOOLEAN,
          writes \in BOOLEAN :
         /\ RequestChecks("Signup", req) # NoResp => ~fault /\ idIsString /\ writes
         /\ LET pre == RequestChecks("Signup", req)
                called == pre = NoResp
                h == GenerateFromPassword(req.pw, salt)
                r == IF h.err # NilErr
                     THEN [store |-> store, id |-> 0,
                           err |-> WrapErr(ErrFailedToHashPassword, h.err)]
                     ELSE RegisterUser(backend, store, nextId, req.user, h.hash, fault, idIsString)
                resp == IF called THEN SignupResponse(r.id, r.err) ELSE pre
                writeFails == resp.status = 201 /\ ~writes
                m1 == IncCounter(rq.metrics, "signup_requests_total", req.method = "POST")
                m2 == IncCounter(m1, "signup_success_total", resp.status = 201)
                m3 == IncCounter(m2, "signup_errors_total",
                                 req.method = "POST" /\ (resp.status # 201 \/ writeFails))
            IN  /\ rq' = Served("Signup", req, resp, m3, called, FALSE,
                                IF called THEN r.err ELSE NilErr, FALSE, writeFails,
                                called /\ r.store # store)
                /\ store' = IF called THEN r.store ELSE store
                /\ nextId' = IF called /\ r.store # store THEN nextId + 1 ELSE nextId
                /\ registered' = IF called /\ r.err = NilErr
                                 THEN registered \cup {[user |-> req.user, pw |-> req.pw, id |-> r.id]}
                                 ELSE registered
    /\ UNCHANGED <<backend, schema, call, ncalls>>
    /\ UNCHANGED <<tokenVars, clientVars, appVars, connVars>>

\* UserRepository.EnsureIndices called again on the connected client, as
\* every start of the process does on the database earlier runs left
EnsureIndicesAgain ==
    /\ schema # "none"
    /\ rq.n < MaxRequests
    /\ \E fault \in BOOLEAN :
         LET early == RepoEnsureIndices(backend, [type |-> backend, connected |-> TRUE], fault)
             x == ExecuteSchema(backend, schema, store)
             err == IF early # NilErr THEN early
                    ELSE IF backend = "mongo"
                    THEN MongoReturned("EnsureSchema", UsersCollection, x.err)
                    ELSE x.err
         IN  /\ schema' = IF early # NilErr THEN schema ELSE x.schema
             /\ store' = IF early # NilErr THEN store ELSE x.store
             /\ rq' = [Served("EnsureIndices", IdleRq.req, NoResp, rq.metrics, FALSE, FALSE,
                              err, FALSE, FALSE, early = NilErr /\ x.store # store)
                          EXCEPT !.ensures = IF err = NilErr THEN @ + 1 ELSE @]
    /\ UNCHANGED <<backend, nextId, call, ncalls, registered>>
    /\ UNCHANGED <<tokenVars, clientVars, appVars, connVars>>

\* the two handlers behind the server, after EnsureIndices
HttpNext ==
    \/ EnsureIndices
    \/ EnsureIndicesAgain
    \/ HandleLogin
    \/ HandleSignup

(***************************************************************************)
(* Properties of the store, the repositories, the user service and Login.  *)
(***************************************************************************)
Done(w, op) == call[w].pc = "done" /\ call[w].op = op

\* the call reached the store and the driver answered (no connection failure)
Answered(w) == call[w].drv \notin {"none", "failure"}

\* C1: once EnsureIndices has succeeded, under every interleaving of
\* concurrent AddUser calls no two stored records share a username, and for
\* each username at most one AddUser call has returned an ID without error,
\* on both backends.
C1_UniqueUsername ==
    schema = "ensured" =>
        /\ \A r1, r2 \in store :
               UsernameOf(r1.doc) = UsernameOf(r2.doc) => r1 = r2
        /\ \A a1, a2 \in registered : a1.user = a2.user => a1 = a2

\* two AddUser calls of one username were in flight together (the loser
\* began when the username was still free); one returned an ID, the other
\* was refused by the database
C1_Witness ==
    \E w1, w2 \in Workers :
        /\ w1 # w2
        /\ Done(w1, "RegisterUser") /\ Done(w2, "RegisterUser")
        /\ call[w1].user = call[w2].user
        /\ call[w1].err = NilErr /\ call[w1].id # 0
        /\ call[w2].known = {} /\ call[w2].drv = "duplicate"

C3_AbsentIsNilNil ==
    \A w \in Workers :
        (/\ call[w].pc = "done"
         /\ call[w].op \in {"AuthenticateUser", "Login"}
         /\ Answered(w)
         /\ ~call[w].present) =>
            call[w].ptr = "nil" /\ call[w].rerr = NilErr

\* C4: after RegisterUser(u, p) succeeded, AuthenticateUser(u, p) returns
\* (true, nil), AuthenticateUser(u, q) returns false with an error for every
\* password q different from p, and AuthenticateUser of a username that was
\* never registered returns false with an error.
C4_RoundTrip ==
    \A w \in Workers :
        (Done(w, "AuthenticateUser") /\ Answered(w)) =>
            LET c == call[w]
                Refused == ~c.ok /\ c.err # NilErr
            IN  /\ c.pw \in c.known => c.ok /\ c.err = NilErr
                /\ (c.known # {} /\ c.pw \notin c.known) => Refused
                /\ (c.known = {} /\ ~c.present) => Refused

\* C5: the response of Login (status and body) to a well-formed request
\* naming an unknown username is identical to the response to a known
\* username with a wrong password.
C5_SameFailure ==
    \A w1, w2 \in Workers :
        (/\ Done(w1, "Login") /\ Answered(w1)
         /\ ~call[w1].present
         /\ Done(w2, "Login") /\ Answered(w2)
         /\ call[w2].present /\ call[w2].pw \notin call[w2].known) =>
            /\ call[w1].resp.status = call[w2].resp.status
            /\ call[w1].resp.error = call[w2].resp.error
            /\ call[w1].resp.message = call[w2].resp.message

\* C26: whenever AddUser returns an error, that call has added no record to
\* the store, at every point where AddUser can fail (InsertOne failing, or
\* the conversion of the ID that InsertOne returned failing).
C26_FailedAddUserStoresNothing ==
    \A w \in Workers :
        (Done(w, "RegisterUser") /\ call[w].drv # "none" /\ call[w].rerr # NilErr) =>
            ~call[w].changed

\* C29: AuthenticateUser returns true exactly when it returns a nil error,
\* whatever the repository returned; hence the 401 branch of Login always
\* hands a non-nil error to errorResponse.
C29_TrueIffNilError ==
    \A w \in Workers :
        /\ Done(w, "AuthenticateUser") => (call[w].ok <=> call[w].err = NilErr)
        /\ (Done(w, "Login") /\ call[w].resp.status # 400) =>
               /\ call[w].ok <=> call[w].err = NilErr
               /\ call[w].resp.status = 401 => call[w].err # NilErr /\ call[w].resp.error # <<>>

\* one direct call authenticated, and a Login was answered 401
C29_Witness ==
    /\ \E w \in Workers : Done(w, "AuthenticateUser") /\ call[w].ok /\ call[w].err = NilErr
    /\ \E w \in Workers :
          /\ Done(w, "Login") /\ call[w].resp.status = 401
          /\ ~call[w].ok /\ call[w].err # NilErr

(***************************************************************************)
(* Properties of the routes.                                               *)
(***************************************************************************)
\* the bytes of a password, as a stored secret would hold them
PlainBytes(p) == <<p.pre>>

\* h is a bcrypt hash of password p
IsHashOf(h, p) == Len(h) = 3 /\ h[1] = "$2a$10$" /\ h[3] = p.pre

SecretOf(row) == row.doc["password"]

\* C16: in every reachable state the secret field of every stored credential
\* record is the hash computed by RegisterUser and never the plaintext
\* password received by Signup: RegisterUser passes only the hashed value to
\* the repository's AddUser.
C16_OnlyHashStored ==
    /\ \A row \in store :
          /\ \E p \in Passwords \cup {EarlierPassword} : IsHashOf(SecretOf(row), p)
          /\ \A p \in Passwords \cup {EarlierPassword} : SecretOf(row) # PlainBytes(p)
    /\ \A w \in Workers :
          (Done(w, "Signup") /\ call[w].changed) =>
              \E row \in store :
                  /\ UsernameOf(row.doc) = call[w].user
                  /\ SecretOf(row) = call[w].hash
                  /\ IsHashOf(SecretOf(row), call[w].pw)

\* a Signup answered 201 and the record it stored holds the hash
C16_Witness ==
    \E w \in Workers :
        /\ Done(w, "Signup") /\ call[w].resp.status = 201
        /\ \E row \in store :
              /\ row.id = call[w].resp.userID
              /\ UsernameOf(row.doc) = call[w].user
              /\ IsHashOf(SecretOf(row), call[w].pw)
              /\ SecretOf(row) # PlainBytes(call[w].pw)

\* the strings of a response: the fields of its body and its cookie
Exposed(resp) ==
    {resp.message, resp.cookie} \cup {resp.error[i] : i \in 1..Len(resp.error)}

\* C17: the hashed secret of a stored record never appears in a value
\* returned to an HTTP caller by Signup, Login or Create, for any request and
\* any store content (the user_id of a response is the identity of a record
\* or empty); the hash is read back only by AuthenticateUser, for the
\* comparison.
C17_HashNeverReturned ==
    \A w \in Workers :
        /\ \A row \in store : HashText(SecretOf(row)) \notin Exposed(call[w].resp)
        /\ call[w].resp.userID \in {0} \cup {row.id : row \in store}
        /\ call[w].found.HashedPassword # <<>> =>
               call[w].op \in {"AuthenticateUser", "Login"}

\* a Login whose lookup read the hash back and whose comparison failed: the
\* response carries the error of the comparison
C17_Witness ==
    \E w \in Workers :
        /\ Done(w, "Login")
        /\ call[w].found.HashedPassword # <<>>
        /\ call[w].resp.status = 401
        /\ call[w].resp.error # <<>>

\* the texts of the errors the database drivers return
DriverTexts ==
    {DriverFailure.msg[i] : i \in 1..Len(DriverFailure.msg)}
    \cup {MongoWriteException.msg[i] : i \in 1..Len(MongoWriteException.msg)}
    \cup {"pq", "duplicate key value violates unique constraint",
          "relation does not exist", "column does not exist"}

\* C18: no response body produced by Signup or Login contains the text of an
\* error returned by the database driver: a store failure reaches the HTTP
\* caller only as a fixed generic message.
C18_NoDriverTextInBody ==
    \A w \in Workers :
        call[w].op \in {"Signup", "Login"} =>
            Exposed(call[w].resp) \cap DriverTexts = {}

(***************************************************************************)
(* Properties of the handlers and of repeated EnsureIndices.               *)
(***************************************************************************)
\* the driver did not answer the last call
NoAnswer == ErrContains(rq.err, DriverFailure.msg[1])

\* C22: EnsureIndices may be called any number of times on a connected
\* client: every call the database answers returns no error, and the schema
\* state (uniqueness of username) and the stored records after n calls are
\* those after one call.
C22_EnsureIndicesIdempotent ==
    /\ (rq.route = "EnsureIndices" /\ ~NoAnswer) =>
          /\ rq.err = NilErr
          /\ schema = "ensured"
          /\ ~rq.changed
    /\ rq.ensures > 0 =>
          /\ schema = "ensured"
          /\ \A r1, r2 \in store : UsernameOf(r1.doc) = UsernameOf(r2.doc) => r1 = r2

\* two repeated calls succeeded over stored records
C22_Witness ==
    /\ rq.route = "EnsureIndices"
    /\ rq.ensures = 2
    /\ rq.err = NilErr
    /\ store # {}

\* the status the first failing check of a request gives, 0 when all pass
EarlyStatus(req) ==
    IF req.method # "POST" THEN 405
    ELSE IF req.ctype # "application/json" THEN 400
    ELSE IF ~req.decodable THEN 400
    ELSE IF \/ req.user = "" \/ Len(req.user) < 8 \/ Len(req.user) > 64
            \/ req.pw.len = 0 \/ req.pw.len < 8 \/ req.pw.len > 64
    THEN 400
    ELSE 0

ServiceFailed == IF rq.route = "Login" THEN rq.err # NilErr \/ ~rq.ok ELSE rq.err # NilErr

\* C23: Login and Signup apply their checks in a fixed order and the first
\* failing check fixes the status: method not POST 405; else Content-Type
\* not application/json 400; else undecodable body 400; else username or
\* password missing or outside 8..64 characters 400; else a failure of the
\* user service 401 (Login) or 409 (Signup); else 200 (Login) or 201
\* (Signup).  The user service is not called when an earlier check fails.
C23_ChecksInOrder ==
    rq.route \in {"Login", "Signup"} =>
        LET early == EarlyStatus(rq.req)
        IN  /\ early # 0 => rq.resp.status = early /\ ~rq.service
            /\ early = 0 =>
                  /\ rq.service
                  /\ rq.resp.status =
                        IF rq.route = "Login"
                        THEN (IF ServiceFailed THEN 401 ELSE 200)
                        ELSE (IF ServiceFailed THEN 409 ELSE 201)

\* C23, amended: as above, and when every check passed and AuthenticateUser
\* succeeded, a failure of CreateToken gives 500 for Login, else 200.
C23_ChecksInOrderAmended ==
    rq.route \in {"Login", "Signup"} =>
        LET early == EarlyStatus(rq.req)
        IN  /\ early # 0 => rq.resp.status = early /\ ~rq.service
            /\ early = 0 =>
                  /\ rq.service
                  /\ rq.resp.status =
                        IF rq.route = "Login"
                        THEN (IF ServiceFailed THEN 401
                              ELSE IF rq.signFails THEN 500 ELSE 200)
                        ELSE (IF ServiceFailed THEN 409 ELSE 201)

\* a GET request without a JSON Content-Type: two checks fail, the first decides
C23_Witness ==
    /\ rq.route = "Login"
    /\ rq.req.method = "GET" /\ rq.req.ctype = "text/plain"
    /\ rq.resp.status = 405
    /\ ~rq.service

\* C24: a session_token cookie is set on a Login response only if, in the
\* same request, AuthenticateUser returned (true, nil) and CreateToken then
\* succeeded, and the token's username claim is the username of the
\* request; no failure path of Login sets the cookie, and nothing about the
\* token is written to the store.
C24_CookieOnlyOnSuccess ==
    rq.route = "Login" =>
        /\ rq.resp.cookie # "" =>
              /\ rq.service /\ rq.ok /\ rq.err = NilErr
              /\ ~rq.signFails
              /\ rq.resp.cookie = rq.req.user
        /\ (rq.resp.status # 200 \/ rq.writeFails) => rq.resp.cookie = ""
        /\ ~rq.changed

\* C24, amended: as above, but of the failure paths only those that answer
\* with an error status leave the cookie unset: when the encoding of the
\* 200 body fails the cookie is already set.
C24_CookieOnlyAfterToken ==
    rq.route = "Login" =>
        /\ rq.resp.cookie # "" =>
              /\ rq.service /\ rq.ok /\ rq.err = NilErr
              /\ ~rq.signFails
              /\ rq.resp.cookie = rq.req.user
        /\ rq.resp.status # 200 => rq.resp.cookie = ""
        /\ ~rq.changed

\* a Login that set the cookie over a stored user
C24_Witness ==
    /\ rq.route = "Login"
    /\ rq.resp.status = 200
    /\ rq.resp.cookie = rq.req.user
    /\ rq.resp.cookie # ""
    /\ store # {}

\* what the last request added to a counter
Incremented(name) == rq.metrics[name] - rq.before[name]

\* C30: after any sequence of Login invocations with metrics enabled, every
\* invocation has incremented exactly one of login_success_total and
\* login_failed_total, and login_success_total + login_failed_total never
\* exceeds login_requests_total.
C30_LoginCounters ==
    /\ rq.route = "Login" =>
          Incremented("login_success_total") + Incremented("login_failed_total") = 1
    /\ rq.metrics["login_success_total"] + rq.metrics["login_failed_total"]
          <= rq.metrics["login_requests_total"]

(***************************************************************************)
(* The token issuer and verifier over the wall clock.                      *)
(***************************************************************************)
\* the instants the clock shows: the first seconds, and the seconds around
\* the end of the lifetime of a token issued in the first seconds
Instants ==
    {t \in 0..(Lifetime + 2 * MaxSkew) : t <= MaxSkew \/ t >= Lifetime - 1}

IdleCreate == [pc |-> "idle", userName |-> "", privateKey |-> "",
               expNow |-> 0, iatNow |-> 0]

NoVerify == [tok |-> NoToken, publicKey |-> "", now |-> 0,
             res |-> [ptr |-> "nil", claims |-> NoClaims, stage |-> "none", err |-> NilErr]]

TokenIdle ==
    /\ clock = 0
    /\ ct = IdleCreate
    /\ token = NoToken
    /\ verified = NoVerify

\* time passes: the clock shows a later instant
ClockAdvance ==
    /\ \E t \in Instants : t > clock /\ clock' = t
    /\ UNCHANGED <<ct, token, verified>>
    /\ UNCHANGED <<storeVars, clientVars, appVars, httpVars, connVars>>

\* CreateToken, ExpiresAt: the first reading of time.Now().  One token, issued
\* in the first seconds, is followed from its issuance past its expiry.
CreateTokenExpiresAt ==
    /\ ct.pc = "idle"
    /\ token = NoToken
    /\ clock <= MaxSkew
    /\ \E u \in Usernames, k \in Keys :
         ct' = [IdleCreate EXCEPT !.pc = "iat", !.userName = u, !.privateKey = k,
                                  !.expNow = clock]
    /\ UNCHANGED <<clock, token, verified>>
    /\ UNCHANGED <<storeVars, clientVars, appVars, httpVars, connVars>>

\* CreateToken, IssuedAt: the second reading
CreateTokenIssuedAt ==
    /\ ct.pc = "iat"
    /\ ct' = [ct EXCEPT !.pc = "nbf", !.iatNow = clock]
    /\ UNCHANGED <<clock, token, verified>>
    /\ UNCHANGED <<storeVars, clientVars, appVars, httpVars, connVars>>

\* CreateToken, NotBefore: the third reading, then the signing and the return
CreateTokenNotBefore ==
    /\ ct.pc = "nbf"
    /\ token' = CreateToken(ct.userName, ct.privateKey, ct.expNow, ct.iatNow, clock)
    /\ ct' = [ct EXCEPT !.pc = "idle"]
    /\ UNCHANGED <<clock, verified>>
    /\ UNCHANGED <<storeVars, clientVars, appVars, httpVars, connVars>>

\* VerifyToken on any presentable string with any public key, now
CallVerifyToken ==
    /\ \E tok \in Presented(token), k \in Keys :
         verified' = [tok |-> tok, publicKey |-> k, now |-> clock,
                      res |-> VerifyToken(tok, k, clock)]
    /\ UNCHANGED <<clock, ct, token>>
    /\ UNCHANGED <<storeVars, clientVars, appVars, httpVars, connVars>>

TokenNext ==
    \/ ClockAdvance
    \/ CreateTokenExpiresAt
    \/ CreateTokenIssuedAt
    \/ CreateTokenNotBefore
    \/ CallVerifyToken

(***************************************************************************)
(* Properties of CreateToken and VerifyToken.                              *)
(***************************************************************************)
\* the last VerifyToken call was given the token CreateToken returned
VerifiedIssued == token # NoToken /\ verified.tok = token

C7_ExactLifetime ==
    token # NoToken =>
        /\ token.claims.exp = token.claims.iat + Lifetime
        /\ token.claims.nbf = token.claims.iat

\* C8: a token created with the private key of K1 is never accepted by
\* VerifyToken given the public key of another pair K2: it returns an error
\* and nil claims.
C8_OtherKeyRejected ==
    (VerifiedIssued /\ verified.publicKey # ct.privateKey) =>
        verified.res.err # NilErr /\ verified.res.ptr = "nil"

C8_Witness ==
    /\ VerifiedIssued
    /\ verified.publicKey # ct.privateKey
    /\ verified.now < token.claims.exp
    /\ verified.res.stage = "signature"

\* the error names expiry
IsExpiry(err) == ErrContains(err, "token is expired")

C10_OnlyES256 ==
    (verified.tok.form = "jws" /\ verified.tok.alg # "ES256") =>
        verified.res.err # NilErr /\ verified.res.stage = "keyfunc"

(***************************************************************************)
(* The parts of the state a specification does not use stay as they are    *)
(* here.                                                                   *)
(***************************************************************************)
\* the store, where no repository call is made
StoreIdle ==
    /\ backend = "mongo"
    /\ schema = "none"
    /\ store = {}
    /\ nextId = 1
    /\ call = [w \in Workers |-> IdleCall]
    /\ ncalls = 0
    /\ registered = {}

NoClient == [type |-> "", connected |-> FALSE]

IdleApp ==
    [pc       |-> "idle",      \* idle, config, key, client, repo, indices, routes,
                               \* returned, failed, listening, exited
     readable |-> FALSE,       \* the configuration file can be read and parsed
     complete |-> FALSE,       \* the required fields other than the two below are set
     keyPath  |-> "",          \* Config.PrivateKeyPath
     dbType   |-> "",          \* Config.Database.Type
     db       |-> "up",
     done     |-> <<>>,        \* history: the steps that succeeded, in order
     client   |-> NoClient,    \* the store client: its type, whether Connect was called
     repo     |-> "",          \* the backend of the repository constructed
     routes   |-> {},          \* the routes added to the server
     served   |-> {},          \* history: the routes that served a request
     err      |-> NilErr]      \* the error NewApp or Run returned

AppIdle == app = IdleApp

\* a store client as its constructor returns it, before any call
IdleConn ==
    [pc        |-> "idle",     \* idle, ready
     backend   |-> "",
     up        |-> FALSE,      \* the database server answers
     client    |-> "nil",      \* m.client / p.db: nil, open, closed
     db        |-> "nil",      \* m.db: nil, or the state of the client it came from
     own       |-> FALSE,      \* m.db came from m.client
     tried     |-> FALSE,      \* history: Connect was called
     succeeded |-> FALSE,      \* history: a Connect returned nil
     n         |-> 0,          \* calls made so far
     op        |-> "",         \* the last call, its arguments
     dsn       |-> [scheme |-> "", host |-> "", path |-> ""],
     name      |-> "",
     was       |-> [client |-> "nil", db |-> "nil", op |-> "", err |-> NilErr],
                               \* the handles before the last call, the call before it
     panic     |-> FALSE,      \* the last call dereferenced a nil handle
     err       |-> NilErr]     \* the error the last call returned

(***************************************************************************)
(* The store clients called directly.  The arguments of the call are drawn *)
(* at the start; the database behind the driver is any database, its       *)
(* answer to a call being the driver's choice to fail or not.              *)
(***************************************************************************)
IdleClient ==
    [pc        |-> "idle",        \* idle, input (arguments chosen), done
     backend   |-> "",
     op        |-> "",
     name      |-> "",            \* collectionName / tableName
     filter    |-> NilDocument,
     document  |-> NilDocument,   \* the document of InsertOne, the update of UpdateOne
     schema    |-> "",            \* EnsureSchema: the kind of the schema argument
     connected |-> FALSE,         \* EnsureSchema: Connect was called before
     out       |-> NotCalled("none", NilErr),
     err       |-> NilErr]

ClientIdle == cc = IdleClient

KeyCount(document) == IF document.nil THEN 0 ELSE Cardinality(DOMAIN document.m)

ClientInit ==
    \E n \in ClientNames, f \in Documents(MaxKeys), d \in Documents(MaxKeys) :
        /\ KeyCount(f) + KeyCount(d) <= MaxKeys
        /\ cc = [IdleClient EXCEPT !.pc = "input", !.name = n, !.filter = f, !.document = d]
        /\ StoreIdle /\ TokenIdle /\ AppIdle /\ rq = IdleRq /\ conn = IdleConn

\* the record of a finished call: the arguments the operation takes, what
\* it handed to the driver, and the error it returned
Called(b, op, out, err) ==
    [cc EXCEPT !.pc = "done", !.backend = b, !.op = op,
               !.filter = IF op \in FilterOps THEN cc.filter ELSE NilDocument,
               !.document = IF op \in DocumentOps THEN cc.document ELSE NilDocument,
               !.out = out, !.err = err]

\* MongoDBClient.InsertOne, FindOne, FindMany, UpdateOne, DeleteOne, DeleteMany
MongoCall(op) ==
    /\ cc.pc = "input"
    /\ \E fault \in BOOLEAN :
         LET out == MongoDriverCall(op, cc.name, cc.filter, cc.document)
         IN  cc' = Called("mongo", op, out,
                          IF out.called
                          THEN MongoReturned(op, cc.name, MongoDriver(out, fault))
                          ELSE out.err)
    /\ UNCHANGED <<storeVars, tokenVars, appVars, httpVars, connVars>>

MongoCallEnsureSchema ==
    /\ cc.pc = "input"
    /\ \E schemaDoc \in SchemaKinds, connected \in BOOLEAN, fault \in BOOLEAN :
         LET out == MongoEnsureSchema(connected, cc.name, schemaDoc)
         IN  cc' = [Called("mongo", "EnsureSchema", out,
                           IF out.called
                           THEN MongoReturned("EnsureSchema", cc.name, MongoDriver(out, fault))
                           ELSE out.err)
                       EXCEPT !.schema = schemaDoc, !.connected = connected]
    /\ UNCHANGED <<storeVars, tokenVars, appVars, httpVars, connVars>>

\* PostgresDatabaseClient.InsertOne, FindOne, FindMany, UpdateOne, DeleteOne,
\* DeleteMany
PostgresCall(op) ==
    /\ cc.pc = "input"
    /\ \E fault \in BOOLEAN :
         LET out == PostgresStatement(op, cc.name, cc.filter, cc.document)
         IN  cc' = Called("postgres", op, out,
                          IF out.called THEN PostgresServer(out, fault) ELSE out.err)
    /\ UNCHANGED <<storeVars, tokenVars, appVars, httpVars, connVars>>

PostgresCallEnsureSchema ==
    /\ cc.pc = "input"
    /\ \E schemaDoc \in SchemaKinds, connected \in BOOLEAN, fault \in BOOLEAN :
         LET out == PostgresEnsureSchema(connected, cc.name, schemaDoc)
         IN  cc' = [Called("postgres", "EnsureSchema", out,
                           IF out.called THEN PostgresServer(out, fault) ELSE out.err)
                       EXCEPT !.schema = schemaDoc, !.connected = connected]
    /\ UNCHANGED <<storeVars, tokenVars, appVars, httpVars, connVars>>

ClientNext ==
    \/ \E op \in ClientOps : MongoCall(op)
    \/ MongoCallEnsureSchema
    \/ \E op \in ClientOps : PostgresCall(op)
    \/ PostgresCallEnsureSchema

(***************************************************************************)
(* Properties of the store clients.                                        *)
(***************************************************************************)
ClientDone(b) == cc.pc = "done" /\ cc.backend = b

\* the map handed holds exactly the keys of the input that Ok lets through,
\* each with the value of the input
Sanitized(input, handed, Ok(_)) ==
    input.nil \/
        /\ ~handed.nil
        /\ \A k \in DOMAIN handed.m : Ok(k) /\ k \in DOMAIN input.m
        /\ \A k \in DOMAIN input.m :
               Ok(k) => k \in DOMAIN handed.m /\ handed.m[k] = input.m[k]

KeysOf(document) == IF document.nil THEN {} ELSE DOMAIN document.m

\* C12: on the document backend no operator-level query clause supplied by
\* the caller reaches the driver: the query passed by FindOne, FindMany,
\* DeleteOne and DeleteMany contains no '$'-prefixed key at any level of the
\* map, the values of whitelisted keys included.
C12_NoOperatorReachesDriver ==
    (/\ ClientDone("mongo")
     /\ cc.op \in {"FindOne", "FindMany", "DeleteOne", "DeleteMany"}
     /\ cc.out.called) =>
        \A k \in KeysOf(cc.out.filter) :
            /\ k \notin DollarKeys
            /\ cc.out.filter.m[k].sub \cap DollarKeys = {}

\* C13: every SQL statement built by PostgresDatabaseClient (InsertOne,
\* FindOne, FindMany, UpdateOne, DeleteOne, DeleteMany) interpolates only a
\* table name of the table whitelist and, as the columns of its INSERT, SET
\* and WHERE lists, only keys of the sanitized document: whitelisted, free
\* of the characters of "();--", and not an identity key the caller supplied
\* (the id InsertOne generates itself is a column of its statement).
C13_OnlySanitizedSql ==
    (ClientDone("postgres") /\ cc.op \in ClientOps /\ cc.out.called) =>
        /\ cc.out.name \in ValidCollections
        /\ \A k \in KeysOf(cc.out.filter) \cup KeysOf(cc.out.document) :
               \/ PostgresAcceptable(k)
               \/ /\ k = PostgresIDFIELD
                  /\ cc.op = "InsertOne"
                  /\ k \notin KeysOf(cc.document)

\* C14: every MongoDBClient operation that takes a collection name
\* (InsertOne, FindOne, FindMany, UpdateOne, DeleteOne, DeleteMany,
\* EnsureSchema) returns an error and issues no driver call when the name is
\* not in the collection whitelist.
C14_UnknownCollectionRefused ==
    (ClientDone("mongo") /\ cc.name \notin ValidCollections) =>
        cc.err # NilErr /\ ~cc.out.called

\* the call took a filter (and, UpdateOne, an update) that are maps, one of
\* them with a key the sanitizer of the backend drops
Acceptable(b, k) == IF b = "mongo" THEN MongoAcceptable(k) ELSE PostgresAcceptable(k)

HasDroppedKey ==
    /\ cc.pc = "done"
    /\ cc.op \in FilterOps
    /\ ~cc.filter.nil
    /\ cc.op = "UpdateOne" => ~cc.document.nil
    /\ \E k \in KeysOf(cc.filter) \cup KeysOf(cc.document) : ~Acceptable(cc.backend, k)

\* a document argument without the keys the sanitizer of backend b drops
Remaining(b, document) ==
    IF document.nil THEN document
    ELSE MapDocument(Restrict(document.m, {k \in DOMAIN document.m : Acceptable(b, k)}))

\* the operation of the call, applied to other arguments
DriverCallOf(filter, document) ==
    IF cc.backend = "mongo"
    THEN MongoDriverCall(cc.op, cc.name, filter, document)
    ELSE PostgresStatement(cc.op, cc.name, filter, document)

SampleRecords ==
    {[username |-> Scalar(u), role |-> Scalar(r)] : u \in {"x", "y"}, r \in {"x", "y"}}

\* the records the query handed to the driver selects: those that match
\* every pair of the handed filter, all of them when no pair is left (a
\* Mongo filter {}, a Postgres statement without WHERE)
Selects(out, record) == Matches(record, out.filter.m)

\* C25: DeleteOne, DeleteMany, FindOne and FindMany on either backend never
\* delete or return a record that fails to match some key/value pair of
\* the filter the caller supplied; a filter whose keys are all removed by
\* sanitization does not select every record.
C25_OnlyMatchingSelected ==
    (/\ cc.pc = "done"
     /\ cc.op \in {"FindOne", "FindMany", "DeleteOne", "DeleteMany"}
     /\ cc.out.called
     /\ cc.err = NilErr) =>
        \A record \in SampleRecords :
            Selects(cc.out, record) => Matches(record, cc.filter.m)

(***************************************************************************)
(* The life of a store client: Connect, the operations, Disconnect, in any *)
(* order.  A handle is nil, open or closed; the server answers or not.  A  *)
(* DSN is its scheme, its host and its path.  A call that dereferences a   *)
(* nil handle panics and returns nothing.                                  *)
(***************************************************************************)
DSNs ==
    {[scheme |-> "", host |-> "", path |-> ""],
     [scheme |-> "http://", host |-> "host", path |-> "/db"],
     [scheme |-> "mongodb://", host |-> "", path |-> ""],
     [scheme |-> "mongodb://", host |-> "host", path |-> ""],
     [scheme |-> "mongodb://", host |-> "host", path |-> "/"],
     [scheme |-> "mongodb://", host |-> "host", path |-> "/db"],
     [scheme |-> "postgres://", host |-> "host", path |-> "/db"]}

ClientDisconnected == Errorf(<<"client is disconnected">>)
DatabaseClosed == Errorf(<<"sql: database is closed">>)

ConnInit ==
    \E b \in Backends, up \in BOOLEAN :
        /\ conn = [IdleConn EXCEPT !.pc = "ready", !.backend = b, !.up = up]
        /\ StoreIdle /\ TokenIdle /\ ClientIdle /\ AppIdle /\ rq = IdleRq

\* the record of a call: what it was, what the handles were before it
Calling(op) ==
    [conn EXCEPT !.n = @ + 1, !.op = op, !.dsn = IdleConn.dsn, !.name = "",
                 !.was = [client |-> conn.client, db |-> conn.db,
                          op |-> conn.op, err |-> conn.err],
                 !.panic = FALSE, !.err = NilErr]

\* MongoDBClient.Connect and PostgresDatabaseClient.Connect.  The Postgres
\* client is given the DSN of its server only.
Connect ==
    /\ conn.pc = "ready" /\ conn.n < MaxOps
    /\ \E dsn \in DSNs :
         /\ conn.backend = "postgres" => dsn.scheme = "postgres://"
         /\ LET kept(err) == [client |-> conn.client, db |-> conn.db, own |-> conn.own,
                              err |-> err]
                r == IF conn.backend = "postgres"
                     THEN [client |-> "open", db |-> "nil", own |-> FALSE,
                           err |-> IF conn.up THEN NilErr ELSE DriverFailure]
                     ELSE IF dsn.scheme \o dsn.host \o dsn.path = ""
                     THEN kept(Errorf(<<"MongoDBClient: DSN is empty">>))
                     ELSE IF dsn.scheme \notin {"mongodb://", "mongodb+srv://"}
                     THEN kept(Errorf(<<"MongoDBClient: Invalid DSN format, expected 'mongodb://' or 'mongodb+srv://'">>))
                     ELSE IF dsn.host = ""
                     THEN [client |-> "nil", db |-> conn.db, own |-> FALSE,
                           err |-> Errorf(<<"error parsing uri: must have at least 1 host">>)]
                     ELSE IF ~conn.up
                     THEN [client |-> "open", db |-> conn.db, own |-> FALSE,
                           err |-> WrapErr("MongoDBClient: Failed to connect to MongoDB server",
                                           DriverFailure)]
                     ELSE IF dsn.path \in {"", "/"}
                     THEN [client |-> "open", db |-> conn.db, own |-> FALSE,
                           err |-> WrapErr("MongoDBClient: Failed to extract database name from datasource name(dsn)",
                                           Errorf(<<"no database name found in MongoDB DSN path">>))]
                     ELSE [client |-> "open", db |-> "open", own |-> TRUE, err |-> NilErr]
            IN  conn' = [Calling("Connect") EXCEPT
                            !.dsn = dsn, !.tried = TRUE,
                            !.succeeded = @ \/ r.err = NilErr,
                            !.client = r.client, !.db = r.db, !.own = r.own,
                            !.err = r.err]
    /\ UNCHANGED <<storeVars, tokenVars, clientVars, appVars, httpVars>>

\* MongoDBClient.Disconnect and PostgresDatabaseClient.Disconnect.  fault
\* is the driver's choice to fail while it closes an open pool.
Disconnect ==
    /\ conn.pc = "ready" /\ conn.n < MaxOps
    /\ \E fault \in BOOLEAN :
         /\ conn.client # "open" => ~fault
         /\ conn' = [Calling("Disconnect") EXCEPT
                        !.client = IF conn.client = "nil" THEN "nil" ELSE "closed",
                        !.db = IF conn.client = "open" /\ conn.own THEN "closed" ELSE @,
                        !.err = IF conn.client = "nil" THEN NilErr
                                ELSE IF conn.client = "closed"
                                THEN (IF conn.backend = "mongo" THEN ClientDisconnected
                                      ELSE NilErr)
                                ELSE IF fault THEN DriverFailure ELSE NilErr]
    /\ UNCHANGED <<storeVars, tokenVars, clientVars, appVars, httpVars>>

\* InsertOne, FindOne, FindMany, UpdateOne, DeleteOne, DeleteMany of the
\* client: Mongo goes through m.db, Postgres through p.db
Operation(op) ==
    /\ conn.pc = "ready" /\ conn.n < MaxOps
    /\ \E name \in {"users", "orders"} :
         LET arg == MapDocument([k \in {"username"} |-> Scalar("x")])
             out == IF conn.backend = "mongo"
                    THEN MongoDriverCall(op, name, arg, arg)
                    ELSE PostgresStatement(op, name, arg, arg)
             handle == IF conn.backend = "mongo" THEN conn.db ELSE conn.client
         IN  conn' = [Calling(op) EXCEPT
                         !.name = name,
                         !.panic = out.called /\ handle = "nil",
                         !.err = IF ~out.called THEN out.err
                                 ELSE IF handle = "nil" THEN NilErr
                                 ELSE IF conn.backend = "mongo"
                                 THEN MongoReturned(op, name,
                                          IF handle = "closed" THEN ClientDisconnected
                                          ELSE MongoDriver(out, ~conn.up))
                                 ELSE IF handle = "closed" THEN DatabaseClosed
                                 ELSE PostgresServer(out, ~conn.up)]
    /\ UNCHANGED <<storeVars, tokenVars, clientVars, appVars, httpVars>>

\* MongoDBClient.Ping (m.client.Ping) and PostgresDatabaseClient.Ping
\* (p.db.PingContext)
Ping ==
    /\ conn.pc = "ready" /\ conn.n < MaxOps
    /\ conn' = [Calling("Ping") EXCEPT
                   !.panic = conn.client = "nil",
                   !.err = IF conn.client = "nil" THEN NilErr
                           ELSE IF conn.client = "closed"
                           THEN (IF conn.backend = "mongo" THEN ClientDisconnected
                                 ELSE DatabaseClosed)
                           ELSE IF conn.up THEN NilErr ELSE DriverFailure]
    /\ UNCHANGED <<storeVars, tokenVars, clientVars, appVars, httpVars>>

\* EnsureSchema of the client with the schema of its backend
EnsureSchema ==
    /\ conn.pc = "ready" /\ conn.n < MaxOps
    /\ LET out == IF conn.backend = "mongo"
                  THEN MongoEnsureSchema(conn.db # "nil", UsersCollection, "IndexModel")
                  ELSE PostgresEnsureSchema(conn.client # "nil", UsersCollection, "CREATE TABLE")
           handle == IF conn.backend = "mongo" THEN conn.db ELSE conn.client
       IN  conn' = [Calling("EnsureSchema") EXCEPT
                       !.name = UsersCollection,
                       !.err = IF ~out.called THEN out.err
                               ELSE IF conn.backend = "mongo"
                               THEN MongoReturned("EnsureSchema", UsersCollection,
                                        IF handle = "closed" THEN ClientDisconnected
                                        ELSE MongoDriver(out, ~conn.up))
                               ELSE IF handle = "closed" THEN DatabaseClosed
                               ELSE PostgresServer(out, ~conn.up)]
    /\ UNCHANGED <<storeVars, tokenVars, clientVars, appVars, httpVars>>

ConnNext ==
    \/ Connect
    \/ Disconnect
    \/ \E op \in ClientOps : Operation(op)
    \/ Ping
    \/ EnsureSchema

(***************************************************************************)
(* Properties of the life of a store client.                               *)
(***************************************************************************)
\* C21: Disconnect on either backend returns nil and changes nothing when
\* the client was never connected, and a second Disconnect after a
\* successful Disconnect also returns nil and leaves the client in the same
\* disconnected state.
C21_DisconnectIdempotent ==
    conn.op = "Disconnect" =>
        /\ ~conn.tried =>
              /\ conn.err = NilErr
              /\ conn.client = conn.was.client /\ conn.db = conn.was.db
        /\ (conn.was.op = "Disconnect" /\ conn.was.err = NilErr
              /\ conn.was.client = "closed") =>
              /\ conn.err = NilErr
              /\ conn.client = "closed" /\ conn.db = conn.was.db

\* C27: every DBClient operation invoked on a client on which Connect has
\* never succeeded (InsertOne, FindOne, FindMany, UpdateOne, DeleteOne,
\* DeleteMany, Ping, EnsureSchema, on both backends) returns an error
\* value; none of them uses the unset connection handle.
C27_ErrorWhenNeverConnected ==
    (conn.op \in ClientOps \cup {"Ping", "EnsureSchema"} /\ ~conn.succeeded) =>
        /\ ~conn.panic
        /\ conn.err # NilErr

\* C28: when MongoDBClient.Connect returns an error, the client holds no
\* open connection afterwards and its client and db fields are as they
\* were before the call, so that a following Disconnect is a no-op.
C28_FailedConnectLeavesNothing ==
    (conn.backend = "mongo" /\ conn.op = "Connect" /\ conn.err # NilErr) =>
        /\ conn.client # "open"
        /\ conn.client = conn.was.client
        /\ conn.db = conn.was.db

(***************************************************************************)
(* Startup: NewApp step by step, then main's Run and the serving of the    *)
(* registered routes.  The configuration file, the key file and the state  *)
(* of the database are drawn at the start.                                 *)
(***************************************************************************)
DatabaseTypes == {"mongo", "postgres", "sqlite"}
KeyPaths == {"", "absent.pem", "key.pem"}
\* the database answers every call (up), none (down), or the first only (flaky)
DatabaseStates == {"up", "down", "flaky"}
Routes == {"metrics", "create", "signup", "login"}

AppInit ==
    \E readable \in BOOLEAN, complete \in BOOLEAN, keyPath \in KeyPaths,
       dbType \in DatabaseTypes \cup {""}, db \in DatabaseStates :
        app = [IdleApp EXCEPT !.pc = "config", !.readable = readable,
                              !.complete = complete, !.keyPath = keyPath,
                              !.dbType = dbType, !.db = db]
        /\ StoreIdle /\ TokenIdle /\ ClientIdle /\ rq = IdleRq /\ conn = IdleConn

\* (an initialisation that logs the error of a step and goes on)
StepMut(a, step, err, next) ==
    [a EXCEPT !.pc = next,
              !.done = IF err = NilErr THEN Append(a.done, step) ELSE a.done]
\* a step of NewApp: on an error NewApp returns (nil, error), else it goes on
Step(a, step, err, next) ==
    IF err # NilErr
    THEN [a EXCEPT !.pc = "failed", !.err = err]
    ELSE [a EXCEPT !.pc = next, !.done = Append(a.done, step)]

\* validator.Struct(cfg): every field tagged required is set
ValidConfig(a) == a.complete /\ a.keyPath # "" /\ a.dbType # ""

\* config.ReadLocalConfig and the validation of the configuration
NewAppConfig ==
    /\ app.pc = "config"
    /\ app' = Step(app, "config",
                   IF ~app.readable THEN Errorf(<<"failed to read config">>)
                   ELSE IF ~ValidConfig(app) THEN Errorf(<<"validation error">>)
                   ELSE NilErr,
                   "key")
    /\ UNCHANGED <<storeVars, tokenVars, clientVars, httpVars, connVars>>

\* App.initializePrivateKey
NewAppPrivateKey ==
    /\ app.pc = "key"
    /\ app' = Step(app, "key",
                   IF app.keyPath = ""
                   THEN Errorf(<<"failed to initialize private key",
                                 "private key path is not provided in the configuration">>)
                   ELSE IF app.keyPath # "key.pem"
                   THEN Errorf(<<"failed to initialize private key", "failed to load private key",
                                 "private key path does not exist">>)
                   ELSE NilErr,
                   "client")
    /\ UNCHANGED <<storeVars, tokenVars, clientVars, httpVars, connVars>>

\* App.initializeDBClient: the Mongo client is created and connected, the
\* Postgres client is created
NewAppDBClient ==
    /\ app.pc = "client"
    /\ LET err == IF app.dbType = "mongo"
                  THEN IF app.db = "down"
                       THEN Errorf(<<"failed to initialize database client",
                                     "failed to connect to MongoDB",
                                     "MongoDBClient: Failed to connect to MongoDB server">>
                                   \o DriverFailure.msg)
                       ELSE NilErr
                  ELSE IF app.dbType = "postgres" THEN NilErr
                  ELSE Errorf(<<"failed to initialize database client",
                                "unsupported database type", app.dbType>>)
           a == Step(app, "client", err, "repo")
       IN  app' = IF err # NilErr THEN a
                  ELSE [a EXCEPT !.client = [type |-> app.dbType,
                                             connected |-> app.dbType = "mongo"]]
    /\ UNCHANGED <<storeVars, tokenVars, clientVars, httpVars, connVars>>

\* NewMongoUserRepository / NewPostgresUserRepository: the client must be of
\* the backend of the repository
NewUserRepository(b, client) ==
    IF client.type = "" THEN Errorf(<<"dbClient cannot be nil">>)
    ELSE IF client.type # b
    THEN Errorf(<<IF b = "mongo" THEN "dbClient must be a MongoDB client"
                                 ELSE "dbClient must be a PostgreSQL client">>)
    ELSE NilErr

\* App.initializeUserRepo, the constructor
NewAppUserRepo ==
    /\ app.pc = "repo"
    /\ LET err == IF app.dbType \in Backends
                  THEN NewUserRepository(app.dbType, app.client)
                  ELSE Errorf(<<"unsupported database type", app.dbType>>)
           a == Step(app, "repo",
                     IF err = NilErr THEN NilErr
                     ELSE WrapErr("failed to initialize user repository", err),
                     "indices")
       IN  app' = IF err # NilErr THEN a ELSE [a EXCEPT !.repo = app.dbType]
    /\ UNCHANGED <<storeVars, tokenVars, clientVars, httpVars, connVars>>

\* App.initializeUserRepo, EnsureIndices
NewAppEnsureIndices ==
    /\ app.pc = "indices"
    /\ LET err == RepoEnsureIndices(app.repo, app.client, app.db # "up")
       IN  app' = Step(app, "indices",
                       IF err = NilErr THEN NilErr
                       ELSE WrapErr("failed to initialize user repository",
                                    WrapErr("failed to ensure indices", err)),
                       "routes")
    /\ UNCHANGED <<storeVars, tokenVars, clientVars, httpVars, connVars>>

\* NewApp from NewUserService on: the routes are added, the App is returned
NewAppRoutes ==
    /\ app.pc = "routes"
    /\ app' = [app EXCEPT !.pc = "returned", !.routes = Routes]
    /\ UNCHANGED <<storeVars, tokenVars, clientVars, httpVars, connVars>>

\* main: App.Run, when NewApp returned no error
Run ==
    /\ app.pc = "returned"
    /\ \E portBusy \in BOOLEAN :
         app' = IF portBusy
                THEN [app EXCEPT !.pc = "exited",
                                 !.err = Errorf(<<"failed to start server", "address already in use">>)]
                ELSE [app EXCEPT !.pc = "listening"]
    /\ UNCHANGED <<storeVars, tokenVars, clientVars, httpVars, connVars>>

\* the listening server serves a request of a registered route
Serve(route) ==
    /\ app.pc = "listening"
    /\ route \in app.routes
    /\ route \notin app.served
    /\ app' = [app EXCEPT !.served = app.served \cup {route}]
    /\ UNCHANGED <<storeVars, tokenVars, clientVars, httpVars, connVars>>

AppNext ==
    \/ NewAppConfig
    \/ NewAppPrivateKey
    \/ NewAppDBClient
    \/ NewAppUserRepo
    \/ NewAppEnsureIndices
    \/ NewAppRoutes
    \/ Run
    \/ \E route \in Routes : Serve(route)

(***************************************************************************)
(* Properties of the startup.                                              *)
(***************************************************************************)
StartupOrder == <<"config", "key", "client", "repo", "indices">>

IsPrefix(s, t) == Len(s) <= Len(t) /\ \A i \in 1..Len(s) : s[i] = t[i]

\* C19: the server starts listening only after all of these succeeded, in
\* this order: configuration validated, signing key loaded, store client
\* created, repository constructed with a client of the matching backend
\* type, EnsureIndices returned no error.  If one of them fails NewApp
\* returns an error and no route ever serves a request.
C19_StartupOrder ==
    /\ IsPrefix(app.done, StartupOrder)
    /\ app.pc = "listening" =>
          /\ app.done = StartupOrder
          /\ app.repo = app.client.type
          /\ app.repo = app.dbType
    /\ app.served # {} => app.pc = "listening"
    /\ app.pc \in {"routes", "returned", "listening", "exited"} => app.done = StartupOrder
    /\ app.pc = "failed" =>
          /\ app.err # NilErr
          /\ app.routes = {}
          /\ app.served = {}

\* every route has served a request after a complete startup on Mongo
C19_Witness ==
    /\ app.pc = "listening"
    /\ app.done = StartupOrder
    /\ app.served = Routes
    /\ app.dbType = "mongo"

\* a valid configuration, a signing key and a reachable database
GoodStart ==
    /\ app.readable /\ app.complete
    /\ app.keyPath = "key.pem"
    /\ app.dbType \in Backends
    /\ app.db = "up"

\* C20: for each supported Database.Type ("mongo" and "postgres"), given a
\* valid configuration and a reachable database, NewApp completes without
\* error and the signup and login routes are served by the repository of
\* that backend.
C20_BothBackendsStart ==
    GoodStart =>
        /\ app.pc # "failed"
        /\ app.err = NilErr \/ app.pc = "exited"
        /\ app.pc \in {"returned", "listening"} =>
              /\ {"signup", "login"} \subseteq app.routes
              /\ app.repo = app.dbType

TokenInit ==
    TokenIdle /\ StoreIdle /\ ClientIdle /\ AppIdle /\ rq = IdleRq /\ conn = IdleConn

Init ==
    StoreInit /\ TokenIdle /\ ClientIdle /\ AppIdle /\ rq = IdleRq /\ conn = IdleConn

Next == StoreNext

vars == <<storeVars, tokenVars, clientVars, appVars, httpVars, connVars>>

Spec == Init /\ [][Next]_vars

SpecToken == TokenInit /\ [][TokenNext]_vars

SpecRoutes == Init /\ [][RoutesNext]_vars

SpecHttp == Init /\ [][HttpNext]_vars
SpecConn == ConnInit /\ [][ConnNext]_vars

SpecClient == ClientInit /\ [][ClientNext]_vars

SpecApp == AppInit /\ [][AppNext]_vars

====
